---- MODULE Spec2Model ----
(***************************************************************************)
(* Model of the answer-recovery pipeline of the study-app tools:           *)
(*   strict parser      src/tools/v2_answer_parser.py                      *)
(*   enhancer           src/tools/v2_enhance_answer_patterns.py,           *)
(*                      src/tools/enhance_answer_patterns.py               *)
(*   aggressive parser  src/tools/v2_aggressive_parser.py                  *)
(*   combiner           src/tools/data_combiner.py,                        *)
(*                      src/tools/v2_data_combiner.py                      *)
(*                                                                         *)
(* Text is abstracted to what the code reads from it: which pattern        *)
(* matched, which letters were captured, similarity ratios and keyword     *)
(* counts are inputs of the actions.  Confidences are fixed-point numbers  *)
(* with ConfScale standing for 1.0.                                        *)
(***************************************************************************)
EXTENDS Integers, Sequences, FiniteSets, TLC

VARIABLES
    mode,               \* which program runs: "combine", "pipeline" or "aggr"
    impl,               \* combiner implementation: "v1" or "v2"
    pc,                 \* position of the running program
    idx,                \* index of the running loop over a list
    questions,          \* the question catalog (list of question records)
    strict_answers,     \* 'answers' written by V2AnswerParser.parse_answers
    needing_help,       \* questions_needing_help of enhance_answers
    new_answers,        \* new_answers of V2AnswerEnhancer.enhance_answers
    enhanced_answers,   \* 'answers' of the enhanced file (all_answers)
    unanswered,         \* unanswered_questions of parse_aggressive
    aggressive_answers, \* 'aggressive_answers' of the aggressive file
    aggr_stats,         \* V2AggressiveParser.stats
    cur,                \* locals of extract_answer_aggressively
    combined,           \* result of merge_answer_sources
    study_pairs,        \* result of match_questions_answers
    stats,              \* DataCombiner.stats
    dataset,            \* result of create_final_dataset
    document,           \* the answer text read by the V1 tools, as the list
                        \* of its delimiter matches with the text they open
    segments,           \* segments of AnswerParser.parse_answers
    errors,             \* 'parsing_errors' (V1) / 'processing_errors' (V2)
    output,             \* the output file of the V1 answer parser
    call                \* a function of the tools called on its own: its
                        \* name, its arguments and, once returned, its result

vars == <<mode, impl, pc, idx, questions, strict_answers, needing_help, new_answers,
          enhanced_answers, unanswered, aggressive_answers, aggr_stats, cur,
          combined, study_pairs, stats, dataset, document, segments, errors,
          output, call>>

NoCall == [fn |-> "none"]

----------------------------------------------------------------------------
(* Bounds of the model *)

MaxQuestions == 2       \* longest question catalog
MaxAnswers == 2         \* longest answer list handed to the combiner
MaxCandidates == 2      \* pattern matches examined for one question

(* Fixed-point scale: ConfScale is the confidence 1.0 *)
ConfScale == 10000

QuestionNumbers == 1..2

----------------------------------------------------------------------------
(* Sequence helpers *)

Range(s) == {s[i] : i \in 1..Len(s)}

SeqsUpTo(S, n) == UNION {[1..k -> S] : k \in 0..n}

QuestionNumberOf(x) == x.question_number

(* list.sort(key=lambda x: x['question_number']) is stable: an element is
   inserted after the last element whose key is not greater, so equal keys
   keep their original order. *)
RECURSIVE InsertByNumber(_, _)
InsertByNumber(x, s) ==
    IF s = <<>> THEN <<x>>
    ELSE IF QuestionNumberOf(Head(s)) <= QuestionNumberOf(x)
         THEN <<Head(s)>> \o InsertByNumber(x, Tail(s))
         ELSE <<x>> \o s

RECURSIVE SortByQuestionNumber(_)
SortByQuestionNumber(s) ==
    IF s = <<>> THEN <<>>
    ELSE InsertByNumber(s[Len(s)], SortByQuestionNumber(SubSeq(s, 1, Len(s) - 1)))

(* An optional value: <<>> is None, <<v>> is v *)
None == <<>>
Some(v) == <<v>>

----------------------------------------------------------------------------
(* Records *)

(* A catalog question as written by the question parser: the id is
   't<topic>_q<number>', modelled as the pair <<topic, number>>. *)
Question(topic, num, nopts) ==
    [question_id |-> <<topic, num>>, question_number |-> num,
     option_count |-> nopts]

(* An answer record.  origin stands for the marker keys of the record:
   'enhanced': True (enhancer), 'aggressive_extraction': True (aggressive
   parser), neither (strict parser).  source is the key merge_answer_sources
   writes; "unset" before.  has_raw_text says raw_answer_text is not blank.
   option_count and has_question_text are what a reader of the record gets
   from its 'options' and 'question_text' keys: no stage writes these keys,
   so they read as [] and ''. *)
Answer(qid, num, method, indices, conf, issues, mmethod, review, expl, origin) ==
    [question_id |-> qid, question_number |-> num,
     extraction_method |-> method, correct_answers |-> indices,
     validation_confidence |-> conf, mapping_issues |-> issues,
     mapping_method |-> mmethod, requires_manual_review |-> review,
     has_explanation |-> expl, origin |-> origin, source |-> "unset",
     has_raw_text |-> TRUE, option_count |-> 0, has_question_text |-> FALSE]

----------------------------------------------------------------------------
(* Combiner: DataCombiner / V2DataCombiner *)

InitialStats ==
    [questions_loaded |-> 0, enhanced_answers |-> 0, aggressive_answers |-> 0,
     total_combined |-> 0, matched_pairs |-> 0, unmatched_questions |-> 0,
     duplicate_answers |-> 0,
     data_quality |-> [high_confidence |-> 0, medium_confidence |-> 0,
                       low_confidence |-> 0, missing_explanations |-> 0]]

reset_stats == InitialStats

(* combined[answer_num] = answer on a dict *)
DictPut(d, k, v) == [x \in DOMAIN d \cup {k} |-> IF x = k THEN v ELSE d[x]]

EmptyDict == [x \in {} |-> 0]

(* first loop of merge_answer_sources *)
RECURSIVE AddEnhanced(_, _)
AddEnhanced(comb, answers) ==
    IF answers = <<>> THEN comb
    ELSE AddEnhanced(
            DictPut(comb, Head(answers).question_number,
                    [Head(answers) EXCEPT !.source = "enhanced"]),
            Tail(answers))

(* a merge in which an aggressive answer overwrites what the map holds *)
RECURSIVE AddAggressive_overwrite(_, _)
AddAggressive_overwrite(m, answers) ==
    IF answers = <<>> THEN m
    ELSE LET answer == Head(answers)
         IN  AddAggressive_overwrite(
                [m EXCEPT !.combined =
                    DictPut(@, answer.question_number,
                            [answer EXCEPT !.source = "aggressive"])],
                Tail(answers))

(* second loop of merge_answer_sources; m = [combined, duplicate_answers] *)
RECURSIVE AddAggressive(_, _)
AddAggressive(m, answers) ==
    IF answers = <<>> THEN m
    ELSE LET answer == Head(answers)
             answer_num == answer.question_number
         IN  IF answer_num \in DOMAIN m.combined
             THEN AddAggressive(
                    [m EXCEPT !.duplicate_answers = @ + 1], Tail(answers))
             ELSE AddAggressive(
                    [m EXCEPT !.combined =
                        DictPut(@, answer_num,
                                [answer EXCEPT !.source = "aggressive"])],
                    Tail(answers))

merge_answer_sources(st, enhanced, aggressive) ==
    LET m == AddAggressive(
                [combined |-> AddEnhanced(EmptyDict, enhanced),
                 duplicate_answers |-> st.duplicate_answers],
                aggressive)
    IN  [combined |-> m.combined,
         stats |-> [st EXCEPT !.duplicate_answers = m.duplicate_answers,
                              !.total_combined = Cardinality(DOMAIN m.combined)]]

categorize_confidence(confidence) ==
    IF confidence * 10 >= 8 * ConfScale THEN "high"
    ELSE IF confidence * 10 >= 6 * ConfScale THEN "medium"
    ELSE IF confidence * 10 >= 4 * ConfScale THEN "low"
    ELSE "very_low"

track_quality_stats(st, answer) ==
    LET c == answer.validation_confidence
        level == IF c * 10 >= 7 * ConfScale THEN "high_confidence"
                 ELSE IF c * 10 >= 5 * ConfScale THEN "medium_confidence"
                 ELSE "low_confidence"
        dq1 == [st.data_quality EXCEPT ![level] = @ + 1]
        dq2 == IF answer.has_explanation THEN dq1
               ELSE [dq1 EXCEPT !.missing_explanations = @ + 1]
    IN  [st EXCEPT !.data_quality = dq2]

create_study_pair(question, answer) ==
    [question_number |-> question.question_number,
     question_id |-> question.question_id,
     answer |-> Some(answer),
     confidence_level |-> categorize_confidence(answer.validation_confidence)]

create_question_only_pair(question) ==
    [question_number |-> question.question_number,
     question_id |-> question.question_id,
     answer |-> None,
     confidence_level |-> "missing"]

(* a matching loop that emits no record for a question without answer *)
RECURSIVE MatchLoop_skipUnmatched(_, _, _)
MatchLoop_skipUnmatched(m, qs, answers) ==
    IF qs = <<>> THEN m
    ELSE LET question == Head(qs)
             question_num == question.question_number
         IN  IF question_num \in DOMAIN answers
             THEN MatchLoop_skipUnmatched(
                    [study_pairs |-> Append(m.study_pairs,
                        create_study_pair(question, answers[question_num])),
                     stats |-> track_quality_stats(
                        [m.stats EXCEPT !.matched_pairs = @ + 1],
                        answers[question_num])],
                    Tail(qs), answers)
             ELSE MatchLoop_skipUnmatched(
                    [m EXCEPT !.stats.unmatched_questions = @ + 1],
                    Tail(qs), answers)

(* match_questions_answers; m = [study_pairs, stats] *)
RECURSIVE MatchLoop(_, _, _)
MatchLoop(m, qs, answers) ==
    IF qs = <<>> THEN m
    ELSE LET question == Head(qs)
             question_num == question.question_number
         IN  IF question_num \in DOMAIN answers
             THEN MatchLoop(
                    [study_pairs |-> Append(m.study_pairs,
                        create_study_pair(question, answers[question_num])),
                     stats |-> track_quality_stats(
                        [m.stats EXCEPT !.matched_pairs = @ + 1],
                        answers[question_num])],
                    Tail(qs), answers)
             ELSE MatchLoop(
                    [study_pairs |-> Append(m.study_pairs,
                        create_question_only_pair(question)),
                     stats |-> [m.stats EXCEPT !.unmatched_questions = @ + 1]],
                    Tail(qs), answers)

match_questions_answers(st, qs, answers) ==
    MatchLoop([study_pairs |-> <<>>, stats |-> st], qs, answers)

(* round((a / b) * 100, 1) in tenths of a percent, b > 0; Python rounds an
   exact tie to the even neighbour *)
RoundPercent(a, b) ==
    LET q == (1000 * a) \div b
        r == (1000 * a) % b
    IN  IF 2 * r > b THEN q + 1
        ELSE IF 2 * r < b THEN q
        ELSE IF q % 2 = 0 THEN q ELSE q + 1

AnsweredPairs(pairs) == {i \in 1..Len(pairs) : pairs[i].answer # None}

calculate_coverage_statistics(pairs) ==
    LET total == Len(pairs)
        answered == Cardinality(AnsweredPairs(pairs))
    IN  [total_questions |-> total,
         answered_questions |-> answered,
         unanswered_questions |-> total - answered,
         coverage_percentage |->
            IF total > 0 THEN RoundPercent(answered, total) ELSE 0]

(* a dataset whose coverage is taken over a fixed expected total instead of
   the catalog given *)
create_final_dataset_fixedTotal(version, st, pairs) ==
    LET sorted == SortByQuestionNumber(pairs)
    IN  [status |-> "ok",
         study_data |-> sorted,
         total_questions |-> Len(sorted),
         answered_questions |-> st.matched_pairs,
         coverage_percentage |-> RoundPercent(st.matched_pairs, 681),
         processing_stats |-> st,
         coverage_statistics |-> calculate_coverage_statistics(sorted)]

(* create_final_dataset.  An empty catalog makes the V1 combiner divide by
   zero (no 'if total > 0' guard): the run fails and no dataset is built. *)
create_final_dataset(version, st, pairs) ==
    LET sorted == SortByQuestionNumber(pairs)
    IN  IF version = "v1" /\ Len(sorted) = 0
        THEN [status |-> "ZeroDivisionError"]
        ELSE [status |-> "ok",
              study_data |-> sorted,
              total_questions |-> Len(sorted),
              answered_questions |-> st.matched_pairs,
              coverage_percentage |->
                 IF Len(sorted) > 0
                 THEN RoundPercent(st.matched_pairs, Len(sorted)) ELSE 0,
              processing_stats |-> st,
              coverage_statistics |-> calculate_coverage_statistics(sorted)]

NoDataset == [status |-> "none"]

(* combine_data / combine_pdf_data up to the loading of the three files *)
CombineLoad ==
    /\ pc = "load"
    /\ stats' = [(IF impl = "v2" THEN reset_stats ELSE stats) EXCEPT
                    !.questions_loaded = Len(questions),
                    !.enhanced_answers = Len(enhanced_answers),
                    !.aggressive_answers = Len(aggressive_answers)]
    /\ pc' = "merge"
    /\ UNCHANGED <<document, segments, errors, output, call, mode, impl, idx, questions, strict_answers, needing_help, new_answers,
                   enhanced_answers, unanswered, aggressive_answers,
                   aggr_stats, cur, combined, study_pairs, dataset>>

CombineMerge ==
    /\ pc = "merge"
    /\ LET m == merge_answer_sources(stats, enhanced_answers, aggressive_answers)
       IN  /\ combined' = m.combined
           /\ stats' = m.stats
    /\ pc' = "match"
    /\ UNCHANGED <<document, segments, errors, output, call, mode, impl, idx, questions, strict_answers, needing_help, new_answers,
                   enhanced_answers, unanswered, aggressive_answers,
                   aggr_stats, cur, study_pairs, dataset>>

CombineMatch ==
    /\ pc = "match"
    /\ LET m == match_questions_answers(stats, questions, combined)
       IN  /\ study_pairs' = m.study_pairs
           /\ stats' = m.stats
    /\ pc' = "final"
    /\ UNCHANGED <<document, segments, errors, output, call, mode, impl, idx, questions, strict_answers, needing_help, new_answers,
                   enhanced_answers, unanswered, aggressive_answers,
                   aggr_stats, cur, combined, dataset>>

CombineFinal ==
    /\ pc = "final"
    /\ dataset' = create_final_dataset(impl, stats, study_pairs)
    /\ pc' = "done"
    /\ UNCHANGED <<document, segments, errors, output, call, mode, impl, idx, questions, strict_answers, needing_help, new_answers,
                   enhanced_answers, unanswered, aggressive_answers,
                   aggr_stats, cur, combined, study_pairs, stats>>

----------------------------------------------------------------------------
(* Letters and option indices *)

UpperCase == <<"A", "B", "C", "D", "E", "F", "G", "H", "I", "J", "K", "L", "M",
               "N", "O", "P", "Q", "R", "S", "T", "U", "V", "W", "X", "Y", "Z">>

(* ord() and chr() on upper-case letters *)
ord(letter) == 64 + (CHOOSE i \in 1..26 : UpperCase[i] = letter)
chr(code) == UpperCase[code - 64]

LowerCase == <<"a", "b", "c", "d", "e", "f", "g", "h", "i", "j", "k", "l", "m",
               "n", "o", "p", "q", "r", "s", "t", "u", "v", "w", "x", "y", "z">>

(* str.upper() on one letter *)
upper(letter) ==
    IF \E i \in 1..26 : LowerCase[i] = letter
    THEN UpperCase[CHOOSE i \in 1..26 : LowerCase[i] = letter]
    ELSE letter

(* index = ord(letter.upper()) - ord('A') *)
LetterToIndex(letter) == ord(upper(letter)) - ord("A")

(* a letter one place further than the index asks for *)
IndexToLetter_shifted(index) == chr(ord("A") + index + 1)

(* letter = chr(ord('A') + index) *)
IndexToLetter(index) == chr(ord("A") + index)

RECURSIVE MapLetters(_)
MapLetters(letters) ==
    IF letters = <<>> THEN <<>>
    ELSE <<LetterToIndex(Head(letters))>> \o MapLetters(Tail(letters))

(* "remove duplicates while preserving order" *)
RECURSIVE Dedupe(_)
Dedupe(s) ==
    IF s = <<>> THEN <<>>
    ELSE LET init == Dedupe(SubSeq(s, 1, Len(s) - 1))
         IN  IF s[Len(s)] \in Range(init) THEN init ELSE Append(init, s[Len(s)])

Issue(kind, n) == [kind |-> kind, value |-> n]

----------------------------------------------------------------------------
(* Strict parser: V2AnswerParser *)

(* validate_answer_mapping; similarity is the value calculate_text_similarity
   returns for the in-range options.  v = [confidence, issues] *)
RECURSIVE CheckIndexBounds(_, _, _)
CheckIndexBounds(v, indices, option_count) ==
    IF indices = <<>> THEN v
    ELSE IF Head(indices) >= option_count
         THEN CheckIndexBounds(
                [confidence |-> (v.confidence * 3) \div 10,
                 issues |-> Append(v.issues,
                                Issue("Index exceeds option count", Head(indices)))],
                Tail(indices), option_count)
         ELSE CheckIndexBounds(v, Tail(indices), option_count)

validate_answer_mapping(indices, option_count, similarity) ==
    LET b == CheckIndexBounds([confidence |-> ConfScale, issues |-> <<>>],
                              indices, option_count)
        has_valid == \E i \in 1..Len(indices) : indices[i] < option_count
        conf == IF has_valid THEN (b.confidence * similarity) \div ConfScale
                ELSE b.confidence
        issues == IF has_valid /\ similarity * 2 < ConfScale
                  THEN Append(b.issues, Issue("Low similarity", similarity))
                  ELSE b.issues
    IN  [confidence |-> conf, issues |-> issues,
         validation_method |-> IF indices # <<>> THEN "letter_mapping"
                               ELSE "failed_extraction"]

(* first index holding the greatest value of a non-empty sequence: what
   list.sort(key=..., reverse=True)[0] selects, the sort being stable *)
FirstGreatest(values) ==
    CHOOSE i \in 1..Len(values) :
        /\ \A j \in 1..Len(values) : values[j] <= values[i]
        /\ \A j \in 1..(i - 1) : values[j] < values[i]

(* fuzzy_match_answer_text.  fuzzy[i] = [similarity, keyword_bonus] are, for
   option i, the SequenceMatcher ratio and calculate_keyword_overlap, both in
   0..ConfScale *)
fuzzy_match_answer_text(fuzzy) ==
    LET final_similarity ==
            [i \in 1..Len(fuzzy) |->
                fuzzy[i].similarity + (fuzzy[i].keyword_bonus * 2) \div 10]
        best_matches == {i \in 1..Len(fuzzy) :
                            final_similarity[i] * 10 > 4 * ConfScale}
    IN  IF best_matches # {}
        THEN LET best == FirstGreatest(final_similarity)
             IN  [correct_answers |-> <<best - 1>>,
                  validation_confidence |-> final_similarity[best],
                  mapping_issues |->
                     <<Issue("Used fuzzy matching", final_similarity[best])>>,
                  mapping_method |-> "fuzzy_text_match"]
        ELSE [correct_answers |-> <<>>,
              validation_confidence |-> 0,
              mapping_issues |-> <<Issue("No fuzzy match found", 0)>>,
              mapping_method |-> "no_match_found"]

(* process_extracted_answer.  letters are the [A-E] characters of
   answer_text.upper(), in order; similarity is what calculate_text_similarity
   returns for the in-range options; fuzzy is what the fuzzy fallback reads
   of the options *)
process_extracted_answer(letters, option_count, similarity, fuzzy) ==
    IF Dedupe(letters) = <<>>
    THEN fuzzy_match_answer_text(fuzzy)
    ELSE LET indices == MapLetters(Dedupe(letters))
             validation == validate_answer_mapping(indices, option_count,
                                                   similarity)
         IN  [correct_answers |-> indices,
              validation_confidence |-> validation.confidence,
              mapping_issues |-> validation.issues,
              mapping_method |-> validation.validation_method]

flag_for_manual_review(r) ==
    \/ r.validation_confidence * 10 < 7 * ConfScale
    \/ Len(r.mapping_issues) > 0
    \/ r.mapping_method \in {"fuzzy_text_match", "no_match_found"}
    \/ Len(r.correct_answers) = 0

StrictPatternNames ==
    <<"pattern_1", "pattern_2", "pattern_3", "pattern_4", "pattern_5", "pattern_6">>

(* extract_answer_multiple_patterns: matches[i] says whether the i-th answer
   pattern finds a match in the section; the first one that does returns *)
extract_answer_multiple_patterns(matches) ==
    IF \E i \in 1..Len(StrictPatternNames) : matches[i]
    THEN Some([extraction_method |->
                  StrictPatternNames[CHOOSE i \in 1..Len(StrictPatternNames) :
                                        /\ matches[i]
                                        /\ \A j \in 1..(i - 1) : ~matches[j]]])
    ELSE None

(* parse_question_answer.  in = [found, pattern, letters, similarity, fuzzy,
   has_explanation]: found says find_question_section returned a section,
   pattern is the 1-based index of the first answer pattern that matches
   (0: none), letters its captured group.  Every answer pattern captures
   [A-E](\s*,\s*[A-E])*, so the captured group always holds a letter. *)
parse_question_answer(question, in) ==
    IF ~in.found THEN None
    ELSE IF in.pattern = 0 THEN None
    ELSE LET r == process_extracted_answer(in.letters, question.option_count,
                                           in.similarity, in.fuzzy)
         IN  Some(Answer(question.question_id, question.question_number,
                         StrictPatternNames[in.pattern], r.correct_answers,
                         r.validation_confidence, r.mapping_issues,
                         r.mapping_method, flag_for_manual_review(r),
                         in.has_explanation, "strict"))

----------------------------------------------------------------------------
(* Enhancer: V2AnswerEnhancer *)

NumbersOf(answers) == {answers[i].question_number : i \in 1..Len(answers)}

(* answer_map of identify_questions_needing_enhancement: keyed by
   question_id, a later answer replaces an earlier one *)
RECURSIVE AnswerMap(_)
AnswerMap(answers) ==
    IF answers = <<>> THEN EmptyDict
    ELSE DictPut(AnswerMap(SubSeq(answers, 1, Len(answers) - 1)),
                 answers[Len(answers)].question_id, answers[Len(answers)])

(* a selection that hands every question to the enhancer *)
NeedsEnhancement_always(question, answer_map) == TRUE

NeedsEnhancement(question, answer_map) ==
    IF question.question_id \notin DOMAIN answer_map THEN TRUE
    ELSE LET answer == answer_map[question.question_id]
         IN  \/ answer.validation_confidence * 2 < ConfScale
             \/ answer.requires_manual_review
             \/ Len(answer.correct_answers) = 0

RECURSIVE FilterNeeding(_, _)
FilterNeeding(qs, answer_map) ==
    IF qs = <<>> THEN <<>>
    ELSE (IF NeedsEnhancement(Head(qs), answer_map) THEN <<Head(qs)>> ELSE <<>>)
         \o FilterNeeding(Tail(qs), answer_map)

identify_questions_needing_enhancement(qs, answers) ==
    FilterNeeding(qs, AnswerMap(answers))

(* indices of process_enhanced_answer: letters in range, repeats kept *)
RECURSIVE InRangeIndices(_, _)
InRangeIndices(letters, option_count) ==
    IF letters = <<>> THEN <<>>
    ELSE (IF LetterToIndex(Head(letters)) < option_count
          THEN <<LetterToIndex(Head(letters))>> ELSE <<>>)
         \o InRangeIndices(Tail(letters), option_count)

(* the text-matching loop of process_enhanced_answer over the options'
   SequenceMatcher ratios; b = [idx, similarity] *)
RECURSIVE BestTextMatch(_, _, _)
BestTextMatch(b, sims, i) ==
    IF i > Len(sims) THEN b
    ELSE IF sims[i] > b.similarity /\ sims[i] * 10 > 4 * ConfScale
         THEN BestTextMatch([idx |-> i - 1, similarity |-> sims[i]], sims, i + 1)
         ELSE BestTextMatch(b, sims, i + 1)

(* process_enhanced_answer.  m = [name, letters, has_text, sims]: letters are
   the [A-E] characters of raw_answer.upper(), sims the ratios of answer_text
   against each option *)
process_enhanced_answer(m, option_count) ==
    LET indices == InRangeIndices(m.letters, option_count)
        best == BestTextMatch([idx |-> -1, similarity |-> 0], m.sims, 1)
    IN  IF indices # <<>>
        THEN [correct_answers |-> indices,
              validation_confidence |-> (7 * ConfScale) \div 10,
              mapping_issues |-> <<Issue("Enhanced pattern extraction", 0)>>,
              mapping_method |-> "enhanced_letter_mapping"]
        ELSE IF m.has_text /\ best.idx >= 0
        THEN [correct_answers |-> <<best.idx>>,
              validation_confidence |-> (best.similarity * 8) \div 10,
              mapping_issues |-> <<Issue("Text similarity match", best.similarity)>>,
              mapping_method |-> "enhanced_text_match"]
        ELSE [correct_answers |-> <<>>,
              validation_confidence |-> 0,
              mapping_issues |->
                <<Issue("Enhanced pattern failed to extract valid answer", 0)>>,
              mapping_method |-> "enhanced_failed"]

(* try_enhanced_patterns: matches lists, in pattern order, the enhanced
   patterns that match the cleaned section; the first one whose processing
   yields indices is returned *)
RECURSIVE try_enhanced_patterns(_, _)
try_enhanced_patterns(matches, option_count) ==
    IF matches = <<>> THEN None
    ELSE LET processed == process_enhanced_answer(Head(matches), option_count)
         IN  IF processed.correct_answers # <<>>
             THEN Some(processed @@ [extraction_method |-> Head(matches).name])
             ELSE try_enhanced_patterns(Tail(matches), option_count)

(* try_enhanced_extraction.  in = [found, long_enough, matches, fuzzy,
   inference, has_explanation]: fuzzy is what try_fuzzy_matching returns
   (None or [index, similarity], similarity > 0.4), inference what
   try_explanation_inference returns (None or [index, score], score >= 2) *)
try_enhanced_extraction(question, in) ==
    LET enhanced_result ==
            IF in.long_enough
            THEN try_enhanced_patterns(in.matches, question.option_count)
            ELSE None
    IN  IF ~in.found THEN None
        ELSE IF enhanced_result # None
        THEN LET r == enhanced_result[1]
             IN  Some(Answer(question.question_id, question.question_number,
                        r.extraction_method, r.correct_answers,
                        r.validation_confidence, r.mapping_issues,
                        r.mapping_method,
                        r.validation_confidence * 10 < 6 * ConfScale,
                        in.has_explanation, "enhanced"))
        ELSE IF in.fuzzy # None
        THEN LET f == in.fuzzy[1]
             IN  Some(Answer(question.question_id, question.question_number,
                        "fuzzy_enhanced", <<f.index>>,
                        (f.similarity * 6) \div 10,
                        <<Issue("Fuzzy match", f.similarity)>>,
                        "fuzzy_text_match", TRUE,
                        in.has_explanation, "enhanced"))
        ELSE IF in.inference # None
        THEN LET e == in.inference[1]
                 c == IF e.score * (ConfScale \div 10) < (8 * ConfScale) \div 10
                      THEN e.score * (ConfScale \div 10)
                      ELSE (8 * ConfScale) \div 10
             IN  Some(Answer(question.question_id, question.question_number,
                        "explanation_inference", <<e.index>>, c,
                        <<Issue("Explanation inference", e.score)>>,
                        "explanation_inference", TRUE,
                        TRUE, "enhanced"))
        ELSE None

----------------------------------------------------------------------------
(* Aggressive parser: V2AggressiveParser *)

Min(a, b) == IF a < b THEN a ELSE b
Max(a, b) == IF a > b THEN a ELSE b

(* for l in sorted(letters)[:3] *)
RECURSIVE SortedLetters(_)
SortedLetters(S) ==
    IF S = {} THEN <<>>
    ELSE LET first == CHOOSE l \in S : \A m \in S : ord(l) <= ord(m)
         IN  <<first>> \o SortedLetters(S \ {first})

FirstThree(s) == SubSeq(s, 1, Min(3, Len(s)))

(* extract_answer_letters, given the set of letters its five patterns find
   in the text *)
extract_answer_letters(found_letters) ==
    FirstThree(SortedLetters(found_letters \cap {"A", "B", "C", "D", "E"}))

has_valid_answer(answer_data) ==
    /\ Len(answer_data.correct_answers) > 0
    /\ answer_data.has_raw_text

RECURSIVE identify_unanswered_questions(_)
identify_unanswered_questions(answers) ==
    IF answers = <<>> THEN <<>>
    ELSE (IF ~has_valid_answer(Head(answers)) THEN <<Head(answers)>> ELSE <<>>)
         \o identify_unanswered_questions(Tail(answers))

method_bonus(method) ==
    CASE method = "letter_flexible" -> 3000
      [] method = "action_based" -> 2500
      [] method = "aws_service_based" -> 2000
      [] method = "sentence_based" -> 1500
      [] method = "line_extraction" -> 1000
      [] method = "standalone_action" -> 2000
      [] method = "aws_heavy_heuristic" -> 1000
      [] method = "answer_indicator" -> 1500
      [] method = "option_context" -> 1000
      [] method = "context_inference" -> 1500
      [] method = "keyword_inference" -> 500
      [] OTHER -> 0

(* a confidence from which the keyword bonus is taken away *)
calculate_aggressive_confidence_keywordPenalty(c, method, has_question_text) ==
    Min(Max(2000 + method_bonus(method) + 2000 - Min(c.aws_count * 500, 1500)
            + c.round_err, 1000), ConfScale)

(* calculate_aggressive_confidence.  c = [clean_len, aws_count, action_count,
   overlap, round_err]: length of clean_text, keywords and action words found
   in it, words shared with the question text.  The code adds binary floats;
   round_err (one unit of 1/ConfScale, either way) stands for the rounding of
   that sum, which can land just beside the decimal value. *)
calculate_aggressive_confidence(c, method, has_question_text) ==
    LET base == 2000 + method_bonus(method)
        length_bonus == IF 20 <= c.clean_len /\ c.clean_len <= 200 THEN 2000
                        ELSE IF 15 <= c.clean_len /\ c.clean_len <= 300 THEN 1000
                        ELSE 0
        aws_bonus == Min(c.aws_count * 500, 1500)
        action_bonus == Min(c.action_count * 300, 1000)
        context_bonus == IF has_question_text THEN Min(c.overlap * 200, 1000) ELSE 0
        penalty == IF c.clean_len < 15 THEN 2000
                   ELSE IF c.clean_len > 500 THEN 1000
                   ELSE 0
        confidence == base + length_bonus + aws_bonus + action_bonus
                      + context_bonus - penalty + c.round_err
    IN  Min(Max(confidence, 1000), ConfScale)

(* AggressiveParser.calculate_confidence_aggressive (V1): c = [clean_len,
   aws_count, action_count, round_err], with clean_len the length of
   answer_text *)
pattern_bonus(pattern_name) ==
    CASE pattern_name = "letter_flexible" -> 3000
      [] pattern_name = "action_based" -> 2500
      [] pattern_name = "aws_service_based" -> 2000
      [] pattern_name = "sentence_based" -> 1500
      [] pattern_name = "line_extraction" -> 1000
      [] pattern_name = "standalone_action" -> 2000
      [] pattern_name = "aws_heavy_heuristic" -> 1000
      [] OTHER -> 0

calculate_confidence_aggressive(c, pattern_name) ==
    LET base == 3000 + pattern_bonus(pattern_name)
        length_bonus == IF 20 <= c.clean_len /\ c.clean_len <= 200 THEN 2000
                        ELSE IF 15 <= c.clean_len /\ c.clean_len <= 300 THEN 1000
                        ELSE 0
        aws_bonus == Min(c.aws_count * 500, 1500)
        action_bonus == Min(c.action_count * 300, 1000)
        penalty == IF c.clean_len < 15 THEN 3000
                   ELSE IF c.clean_len > 400 THEN 2000
                   ELSE 0
        confidence == base + length_bonus + aws_bonus + action_bonus
                      - penalty + c.round_err
    IN  Min(confidence, ConfScale)

(* process_aggressive_match: the candidate, or None when the cleaned text is
   shorter than 10 or longer than 1000 characters *)
process_aggressive_match(c) ==
    IF c.clean_len < 10 \/ c.clean_len > 1000 THEN None
    ELSE Some([found_letters |-> c.found_letters, issues |-> <<>>])

(* the last of the options with the greatest score *)
FirstMaxIndex_last(scores) ==
    CHOOSE i \in 1..Len(scores) :
        /\ \A j \in 1..Len(scores) : scores[j] <= scores[i]
        /\ \A j \in (i + 1)..Len(scores) : scores[j] < scores[i]

(* index of the first greatest score: option_scores.sort(key=score,
   reverse=True) is stable, so [0] is the earliest option with the maximum *)
FirstMaxIndex(scores) ==
    CHOOSE i \in 1..Len(scores) :
        /\ \A j \in 1..Len(scores) : scores[j] <= scores[i]
        /\ \A j \in 1..(i - 1) : scores[j] < scores[i]

(* an inference that records no issue *)
InferFromScores_noIssue(scores, extra, threshold, issue) ==
    IF Len(scores) = 0 THEN None
    ELSE LET best == FirstMaxIndex(scores)
         IN  IF scores[best] > threshold
             THEN Some([found_letters |-> {IndexToLetter(best - 1)} \cup extra[best],
                        issues |-> <<>>])
             ELSE None

(* infer_from_context / infer_from_keywords on the per-option scores their
   loops compute; extra[i] is the set of letters extract_answer_letters picks
   up inside the text of option i.  raw_text is 'L. <option text>'. *)
InferFromScores(scores, extra, threshold, issue) ==
    IF Len(scores) = 0 THEN None
    ELSE LET best == FirstMaxIndex(scores)
             letter == IndexToLetter(best - 1)
         IN  IF scores[best] > threshold
             THEN Some([found_letters |-> {letter} \cup extra[best],
                        issues |-> <<Issue(issue, 0)>>])
             ELSE None

infer_from_context(scores, extra) ==
    InferFromScores(scores, extra, 1, "context_inference")

infer_from_keywords(scores, extra) ==
    InferFromScores(scores, extra, 0, "keyword_inference")

NoCur == [phase |-> "idle"]

InitialAggrStats ==
    [total_questions |-> 0, unanswered_questions |-> 0,
     aggressive_attempts |-> 0, aggressive_successes |-> 0,
     inference_context |-> 0, inference_keyword |-> 0]

(* locals of extract_answer_aggressively at its entry *)
EnterAggressive(question_data) ==
    [phase |-> "find_context",
     question_id |-> question_data.question_id,
     question_number |-> question_data.question_number,
     option_count |-> question_data.option_count,
     has_question_text |-> question_data.has_question_text,
     best_answer |-> None, best_confidence |-> 0, best_method |-> "none",
     ran |-> <<>>, matches |-> 0]

(* Method 1, one match of one pattern *)
PatternStep(c, m) ==
    LET answer_candidate == process_aggressive_match(m)
        confidence == calculate_aggressive_confidence(m, m.method,
                                                      c.has_question_text)
    IN  IF answer_candidate # None /\ confidence > c.best_confidence
        THEN [c EXCEPT !.best_answer = answer_candidate,
                       !.best_confidence = confidence,
                       !.best_method = m.method,
                       !.matches = @ + 1]
        ELSE [c EXCEPT !.matches = @ + 1]

(* context inference run below 0.5 instead of 0.4 *)
RunsContextInference_half(c) ==
    c.best_answer = None \/ c.best_confidence * 10 < 5 * ConfScale

RunsContextInference(c) ==
    c.best_answer = None \/ c.best_confidence * 10 < 4 * ConfScale

RunsKeywordInference(c) ==
    c.best_answer = None \/ c.best_confidence * 10 < 3 * ConfScale

InferenceConfidence == 3500
KeywordConfidence == 2500

(* Method 2 taking the inferred answer whatever the best confidence is *)
ContextStep_always(c, scores, extra) ==
    LET inferred_answer == infer_from_context(scores, extra)
        c1 == [c EXCEPT !.ran = Append(@, "context"), !.phase = "method3"]
    IN  IF inferred_answer # None
        THEN [c1 EXCEPT !.best_answer = inferred_answer,
                        !.best_confidence = InferenceConfidence,
                        !.best_method = "context_inference"]
        ELSE c1

(* Method 2 *)
ContextStep(c, scores, extra) ==
    LET inferred_answer == infer_from_context(scores, extra)
        c1 == [c EXCEPT !.ran = Append(@, "context"), !.phase = "method3"]
    IN  IF inferred_answer # None /\ InferenceConfidence > c.best_confidence
        THEN [c1 EXCEPT !.best_answer = inferred_answer,
                        !.best_confidence = InferenceConfidence,
                        !.best_method = "context_inference"]
        ELSE c1

(* Method 3 *)
KeywordStep(c, scores, extra) ==
    LET keyword_answer == infer_from_keywords(scores, extra)
        c1 == [c EXCEPT !.ran = Append(@, "keyword"), !.phase = "finish"]
    IN  IF keyword_answer # None /\ KeywordConfidence > c.best_confidence
        THEN [c1 EXCEPT !.best_answer = keyword_answer,
                        !.best_confidence = KeywordConfidence,
                        !.best_method = "keyword_inference"]
        ELSE c1

(* the tail of extract_answer_aggressively: the record returned, or None *)
AggressiveResult(c) ==
    IF c.best_answer # None /\ c.best_confidence * 10 >= 2 * ConfScale
    THEN LET answer_letters == extract_answer_letters(c.best_answer[1].found_letters)
         IN  IF answer_letters # <<>>
             THEN Some([Answer(c.question_id, c.question_number, c.best_method,
                               MapLetters(answer_letters), c.best_confidence,
                               c.best_answer[1].issues, "aggressive_extraction",
                               TRUE, TRUE, "aggressive")
                        EXCEPT !.option_count = c.option_count,
                               !.has_question_text = c.has_question_text])
             ELSE None
    ELSE None

(* Inputs of the aggressive parser: what the patterns and the scoring loops
   find in the text *)
PatternMatchFeatures(methods, letter_sets) ==
    [method : methods,
     clean_len : {5, 12, 100, 600},
     aws_count : {0, 1},
     action_count : {0},
     overlap : {0},
     round_err : {-1, 0, 1},
     found_letters : letter_sets]

(* a letter-anchored pattern yields raw_text 'L. ...', whose letter is always
   found again; a pattern without letter prefix may yield a text in which no
   letter is found *)
PatternMatches ==
    PatternMatchFeatures({"letter_flexible"}, {{"A"}})
    \cup {m \in PatternMatchFeatures({"letter_flexible"}, {{"E"}}) :
              m.clean_len = 100 /\ m.aws_count = 0 /\ m.round_err = 0}
    \cup PatternMatchFeatures({"option_context"}, {{}, {"A"}})

OptionScores(n) == [1..n -> {0, 1, 2}]

OptionExtraLetters(n) == {[i \in 1..n |-> {}], [i \in 1..n |-> {"A", "B", "C"}]}

(* parse_aggressive up to the loop *)
AggrIdentify ==
    /\ pc = "aggr_identify"
    /\ unanswered' = identify_unanswered_questions(enhanced_answers)
    /\ aggr_stats' = [aggr_stats EXCEPT
            !.total_questions = Len(enhanced_answers),
            !.unanswered_questions = Len(unanswered')]
    /\ idx' = 0
    /\ pc' = "aggr_loop"
    /\ UNCHANGED <<document, segments, errors, output, call, mode, impl, questions, strict_answers, needing_help,
                   new_answers, enhanced_answers, aggressive_answers, cur,
                   combined, study_pairs, stats, dataset>>

(* one iteration of the loop starts: extract_answer_aggressively is called *)
AggrBegin ==
    /\ pc = "aggr_loop"
    /\ cur.phase = "idle"
    /\ idx < Len(unanswered)
    /\ idx' = idx + 1
    /\ aggr_stats' = [aggr_stats EXCEPT !.aggressive_attempts = @ + 1]
    /\ cur' = EnterAggressive(unanswered[idx + 1])
    /\ UNCHANGED <<document, segments, errors, output, call, mode, impl, pc, questions, strict_answers, needing_help,
                   new_answers, enhanced_answers, unanswered,
                   aggressive_answers, combined, study_pairs, stats, dataset>>

AggrUnchanged ==
    UNCHANGED <<document, segments, errors, output, call, mode, impl, pc, idx, questions, strict_answers, needing_help,
                new_answers, enhanced_answers, unanswered, combined,
                study_pairs, stats, dataset>>

(* find_question_context; no context: return None *)
AggrFindContext ==
    /\ pc = "aggr_loop"
    /\ cur.phase = "find_context"
    /\ \E found \in BOOLEAN :
         cur' = IF found
                THEN [cur EXCEPT !.phase = "patterns", !.ran = <<"pattern">>]
                ELSE NoCur
    /\ UNCHANGED <<aggr_stats, aggressive_answers>>
    /\ AggrUnchanged

AggrPatternMatch ==
    /\ pc = "aggr_loop"
    /\ cur.phase = "patterns"
    /\ cur.matches < MaxCandidates
    /\ \E m \in PatternMatches : cur' = PatternStep(cur, m)
    /\ UNCHANGED <<aggr_stats, aggressive_answers>>
    /\ AggrUnchanged

AggrPatternsEnd ==
    /\ pc = "aggr_loop"
    /\ cur.phase = "patterns"
    /\ cur' = [cur EXCEPT !.phase = "method2"]
    /\ UNCHANGED <<aggr_stats, aggressive_answers>>
    /\ AggrUnchanged

AggrContextInference ==
    /\ pc = "aggr_loop"
    /\ cur.phase = "method2"
    /\ RunsContextInference(cur)
    /\ \E scores \in OptionScores(cur.option_count),
          extra \in OptionExtraLetters(cur.option_count) :
         cur' = ContextStep(cur, scores, extra)
    /\ aggr_stats' = IF cur'.best_method = "context_inference"
                     THEN [aggr_stats EXCEPT !.inference_context = @ + 1]
                     ELSE aggr_stats
    /\ UNCHANGED aggressive_answers
    /\ AggrUnchanged

AggrContextSkipped ==
    /\ pc = "aggr_loop"
    /\ cur.phase = "method2"
    /\ ~RunsContextInference(cur)
    /\ cur' = [cur EXCEPT !.phase = "method3"]
    /\ UNCHANGED <<aggr_stats, aggressive_answers>>
    /\ AggrUnchanged

AggrKeywordInference ==
    /\ pc = "aggr_loop"
    /\ cur.phase = "method3"
    /\ RunsKeywordInference(cur)
    /\ \E scores \in OptionScores(cur.option_count),
          extra \in OptionExtraLetters(cur.option_count) :
         cur' = KeywordStep(cur, scores, extra)
    /\ aggr_stats' = IF cur'.best_method = "keyword_inference"
                     THEN [aggr_stats EXCEPT !.inference_keyword = @ + 1]
                     ELSE aggr_stats
    /\ UNCHANGED aggressive_answers
    /\ AggrUnchanged

AggrKeywordSkipped ==
    /\ pc = "aggr_loop"
    /\ cur.phase = "method3"
    /\ ~RunsKeywordInference(cur)
    /\ cur' = [cur EXCEPT !.phase = "finish"]
    /\ UNCHANGED <<aggr_stats, aggressive_answers>>
    /\ AggrUnchanged

(* extract_answer_aggressively returns; the loop body appends the result *)
AggrReturn ==
    /\ pc = "aggr_loop"
    /\ cur.phase = "finish"
    /\ LET answer_result == AggressiveResult(cur)
       IN  IF answer_result # None
           THEN /\ aggressive_answers' = Append(aggressive_answers, answer_result[1])
                /\ aggr_stats' = [aggr_stats EXCEPT !.aggressive_successes = @ + 1]
           ELSE UNCHANGED <<aggressive_answers, aggr_stats>>
    /\ cur' = NoCur
    /\ AggrUnchanged

(* the loop is over: the result is built with the answers sorted *)
AggrDone ==
    /\ pc = "aggr_loop"
    /\ cur.phase = "idle"
    /\ idx = Len(unanswered)
    /\ aggressive_answers' = SortByQuestionNumber(aggressive_answers)
    /\ pc' = IF mode = "pipeline" THEN "load" ELSE "done"
    /\ idx' = 0
    /\ UNCHANGED <<document, segments, errors, output, call, mode, impl, questions, strict_answers, needing_help,
                   new_answers, enhanced_answers, unanswered, aggr_stats, cur,
                   combined, study_pairs, stats, dataset>>

(* Inputs of the combiner run on arbitrary files *)
CombineConfidences == {3000, 8000}

CatalogQuestions == {Question(1, n, 4) : n \in 1..3}

EnhancedFileAnswers ==
    {Answer(<<1, n>>, n, "pattern_1", <<0>>, c, <<>>, "letter_mapping",
            c < 7000, TRUE, "strict")
        : n \in QuestionNumbers, c \in CombineConfidences}

AggressiveFileAnswers ==
    {Answer(<<1, n>>, n, "letter_flexible", <<1>>, 4500, <<>>,
            "aggressive_extraction", TRUE, n = 1, "aggressive")
        : n \in QuestionNumbers}

InitCombine ==
    /\ mode = "combine"
    /\ impl \in {"v1", "v2"}
    /\ pc = "load"
    /\ idx = 0
    /\ questions \in SeqsUpTo(CatalogQuestions, MaxQuestions)
    /\ enhanced_answers \in SeqsUpTo(EnhancedFileAnswers, MaxAnswers)
    /\ aggressive_answers \in SeqsUpTo(AggressiveFileAnswers, MaxAnswers)
    /\ strict_answers = <<>>
    /\ needing_help = <<>>
    /\ new_answers = <<>>
    /\ unanswered = <<>>
    /\ aggr_stats = InitialAggrStats
    /\ cur = NoCur
    /\ combined = EmptyDict
    /\ study_pairs = <<>>
    /\ stats = InitialStats
    /\ dataset = NoDataset
    /\ call = NoCall
    /\ document = <<>>
    /\ segments = <<>>
    /\ errors = <<>>
    /\ output = None

NextCombine == CombineLoad \/ CombineMerge \/ CombineMatch \/ CombineFinal

SpecCombine == InitCombine /\ [][NextCombine]_vars

(* Several runs on one combiner instance: combine_data (V1) or
   combine_pdf_data (V2) is called again, on other files, on the instance
   that has completed a run; self.stats is the instance's and stays as the
   run left it, idx counts the runs completed. *)
MaxRuns == 2            \* runs on one instance

MaxRunLength == 1       \* entries of each file of a run

RunFiles ==
    [questions : SeqsUpTo(CatalogQuestions, MaxRunLength),
     enhanced_answers : SeqsUpTo(EnhancedFileAnswers, MaxRunLength),
     aggressive_answers : SeqsUpTo(AggressiveFileAnswers, MaxRunLength)]

CombineAgain ==
    /\ mode = "combine" /\ pc = "done"
    /\ idx + 1 < MaxRuns
    /\ idx' = idx + 1
    /\ \E files \in RunFiles :
          /\ questions' = files.questions
          /\ enhanced_answers' = files.enhanced_answers
          /\ aggressive_answers' = files.aggressive_answers
    /\ combined' = EmptyDict
    /\ study_pairs' = <<>>
    /\ dataset' = NoDataset
    /\ pc' = "load"
    /\ UNCHANGED <<document, segments, errors, output, call, mode, impl,
                   strict_answers, needing_help, new_answers, unanswered,
                   aggr_stats, cur, stats>>

InitCombineRuns ==
    /\ InitCombine
    /\ [questions |-> questions, enhanced_answers |-> enhanced_answers,
        aggressive_answers |-> aggressive_answers] \in RunFiles

NextCombineRuns == NextCombine \/ CombineAgain

SpecCombineRuns == InitCombineRuns /\ [][NextCombineRuns]_vars

----------------------------------------------------------------------------
(* The V2 pipeline: v2_answer_parser, v2_enhance_answer_patterns,
   v2_aggressive_parser and v2_data_combiner run one after the other on the
   same catalog, each reading the file the previous one wrote *)

PipelineQuestions == {Question(1, 1, 4), Question(1, 2, 4), Question(2, 1, 4)}

NoSection ==
    [found |-> FALSE, pattern |-> 0, letters |-> <<>>, similarity |-> 0,
     fuzzy |-> <<>>, has_explanation |-> FALSE]

StrictInputs ==
    {NoSection, [NoSection EXCEPT !.found = TRUE]}
    \cup {[found |-> TRUE, pattern |-> 1, letters |-> in[1],
           similarity |-> in[2], fuzzy |-> <<>>, has_explanation |-> TRUE]
            : in \in {<<(<<"A">>), 10000>>, <<(<<"A">>), 3000>>,
                      <<(<<"B", "E">>), 10000>>}}

NoMatch ==
    [found |-> TRUE, long_enough |-> TRUE, matches |-> <<>>, fuzzy |-> None,
     inference |-> None, has_explanation |-> TRUE]

EnhancedMatch(name, letters, sims) ==
    [name |-> name, letters |-> letters, has_text |-> TRUE, sims |-> sims]

EnhanceInputs ==
    {[NoMatch EXCEPT !.found = FALSE],
     NoMatch,
     [NoMatch EXCEPT !.matches =
        <<EnhancedMatch("letter_punct", <<"B">>, <<0, 0, 0, 0>>)>>],
     [NoMatch EXCEPT !.matches =
        <<EnhancedMatch("letter_punct", <<"E">>, <<0, 0, 0, 0>>),
          EnhancedMatch("service_pattern", <<>>, <<0, 9000, 9000, 0>>)>>],
     [NoMatch EXCEPT !.fuzzy = Some([index |-> 2, similarity |-> 5000])],
     [NoMatch EXCEPT !.inference = Some([index |-> 1, score |-> 3])]}

PipelineUnchanged ==
    UNCHANGED <<document, segments, output, call, mode, impl, questions, unanswered, aggressive_answers,
                aggr_stats, cur, combined, study_pairs, stats, dataset>>

(* one iteration of the loop of V2AnswerParser.parse_answers *)
StrictStep ==
    /\ pc = "strict"
    /\ idx < Len(questions)
    /\ \/ \E in \in StrictInputs :
            LET answer_result == parse_question_answer(questions[idx + 1], in)
            IN  /\ strict_answers' = IF answer_result # None
                                     THEN Append(strict_answers, answer_result[1])
                                     ELSE strict_answers
                /\ UNCHANGED errors
       \/ \* parse_question_answer raises: the error is recorded
          /\ errors' = Append(errors,
                          [question_id |-> questions[idx + 1].question_id])
          /\ UNCHANGED strict_answers
    /\ idx' = idx + 1
    /\ UNCHANGED <<pc, needing_help, new_answers, enhanced_answers>>
    /\ PipelineUnchanged

(* parse_answers returns; enhance_answers loads the file and selects the
   questions to work on *)
EnhanceIdentify ==
    /\ pc = "strict"
    /\ idx = Len(questions)
    /\ needing_help' = identify_questions_needing_enhancement(questions,
                                                              strict_answers)
    /\ idx' = 0
    /\ pc' = "enhance"
    /\ UNCHANGED <<errors, strict_answers, new_answers, enhanced_answers>>
    /\ PipelineUnchanged

(* one iteration of the loop of enhance_answers *)
EnhanceStep ==
    /\ pc = "enhance"
    /\ idx < Len(needing_help)
    /\ \E in \in EnhanceInputs :
         LET enhanced_answer == try_enhanced_extraction(needing_help[idx + 1], in)
         IN  new_answers' = IF enhanced_answer # None
                            THEN Append(new_answers, enhanced_answer[1])
                            ELSE new_answers
    /\ idx' = idx + 1
    /\ UNCHANGED <<errors, pc, strict_answers, needing_help, enhanced_answers>>
    /\ PipelineUnchanged

(* all_answers = answers_data['answers'] + new_answers, sorted *)
EnhanceDone ==
    /\ pc = "enhance"
    /\ idx = Len(needing_help)
    /\ enhanced_answers' = SortByQuestionNumber(strict_answers \o new_answers)
    /\ idx' = 0
    /\ pc' = "aggr_identify"
    /\ UNCHANGED <<errors, strict_answers, needing_help, new_answers>>
    /\ PipelineUnchanged

Init ==
    /\ mode = "pipeline"
    /\ impl = "v2"
    /\ pc = "strict"
    /\ idx = 0
    /\ questions \in SeqsUpTo(PipelineQuestions, MaxQuestions)
    /\ strict_answers = <<>>
    /\ needing_help = <<>>
    /\ new_answers = <<>>
    /\ enhanced_answers = <<>>
    /\ unanswered = <<>>
    /\ aggressive_answers = <<>>
    /\ aggr_stats = InitialAggrStats
    /\ cur = NoCur
    /\ combined = EmptyDict
    /\ study_pairs = <<>>
    /\ stats = InitialStats
    /\ dataset = NoDataset
    /\ call = NoCall
    /\ document = <<>>
    /\ segments = <<>>
    /\ errors = <<>>
    /\ output = None

(* Every answer the strict parser and the enhancer write has indices and a
   raw text, so the aggressive parser is handed an empty list and its loop
   body does not run in the pipeline *)
Next ==
    \/ StrictStep \/ EnhanceIdentify \/ EnhanceStep \/ EnhanceDone
    \/ AggrIdentify \/ AggrDone
    \/ CombineLoad \/ CombineMerge \/ CombineMatch \/ CombineFinal

Spec == Init /\ [][Next]_vars

----------------------------------------------------------------------------
(* The two enhancers: V2AnswerEnhancer after the strict V2 parser, and the V1
   AnswerEnhancer run on an answers file with its unparseable segments *)

(* a V1 answer record: keyed by answer_number, its answer is a text *)
V1Answer(answer_number, format, origin) ==
    Answer(<<0, answer_number>>, answer_number, format, <<>>, ConfScale, <<>>,
           "text", FALSE, TRUE, origin)

V1FileAnswers == {V1Answer(n, "letter_dot", "strict") : n \in QuestionNumbers}

V1UnparseableSegments == {[answer_number |-> n] : n \in QuestionNumbers}

(* extract_segment_content and try_enhanced_parsing on one segment: the
   answer, or None when the number is not in the source, the content is too
   short or no enhanced pattern yields a valid answer text *)
V1EnhanceInputs == {"no_segment", "no_match", "letter_punct"}

try_enhanced_parsing(answer_number, in) ==
    IF in \in {"no_segment", "no_match"} THEN None
    ELSE Some(V1Answer(answer_number, in, "enhanced"))

(* one iteration of the loop of AnswerEnhancer.enhance_answers *)
EnhanceV1Step ==
    /\ pc = "enhance_v1"
    /\ idx < Len(needing_help)
    /\ LET answer_num == needing_help[idx + 1].answer_number
           existing_answer_numbers == NumbersOf(strict_answers)
       IN  IF answer_num \notin existing_answer_numbers
           THEN \E in \in V1EnhanceInputs :
                  LET enhanced_answer == try_enhanced_parsing(answer_num, in)
                  IN  new_answers' = IF enhanced_answer # None
                                     THEN Append(new_answers, enhanced_answer[1])
                                     ELSE new_answers
           ELSE UNCHANGED new_answers
    /\ idx' = idx + 1
    /\ UNCHANGED <<errors, pc, strict_answers, needing_help, enhanced_answers>>
    /\ PipelineUnchanged

(* all_answers = answers_data['answers'] + new_answers, sorted *)
EnhanceV1Done ==
    /\ pc = "enhance_v1"
    /\ idx = Len(needing_help)
    /\ enhanced_answers' = SortByQuestionNumber(strict_answers \o new_answers)
    /\ idx' = 0
    /\ pc' = "done"
    /\ UNCHANGED <<errors, strict_answers, needing_help, new_answers>>
    /\ PipelineUnchanged

InitEnhanceV1 ==
    /\ mode = "enhance"
    /\ impl = "v1"
    /\ pc = "enhance_v1"
    /\ idx = 0
    /\ questions = <<>>
    /\ strict_answers \in SeqsUpTo(V1FileAnswers, MaxAnswers)
    /\ needing_help \in SeqsUpTo(V1UnparseableSegments, MaxAnswers)
    /\ new_answers = <<>>
    /\ enhanced_answers = <<>>
    /\ unanswered = <<>>
    /\ aggressive_answers = <<>>
    /\ aggr_stats = InitialAggrStats
    /\ cur = NoCur
    /\ combined = EmptyDict
    /\ study_pairs = <<>>
    /\ stats = InitialStats
    /\ dataset = NoDataset
    /\ call = NoCall
    /\ document = <<>>
    /\ segments = <<>>
    /\ errors = <<>>
    /\ output = None

InitEnhance == Init \/ InitEnhanceV1

NextEnhance ==
    \/ StrictStep \/ EnhanceIdentify \/ EnhanceStep \/ EnhanceDone
    \/ EnhanceV1Step \/ EnhanceV1Done

SpecEnhance == InitEnhance /\ [][NextEnhance]_vars

----------------------------------------------------------------------------
(* The aggressive parser run on an arbitrary enhanced file *)

MaxEntries == 1         \* longest enhanced file given to the aggressive parser

EnhancedFileEntries ==
    {Answer(<<1, 1>>, 1, "pattern_1", <<0>>, 10000, <<>>, "letter_mapping",
            FALSE, TRUE, "strict")}
    \cup {[Answer(<<1, n>>, n, "pattern_1", <<>>, 0,
                  <<Issue("No fuzzy match found", 0)>>, "no_match_found",
                  TRUE, FALSE, "strict")
           EXCEPT !.option_count = k, !.has_question_text = (k > 0)]
            : n \in {2}, k \in {0, 4}}

InitAggr ==
    /\ mode = "aggr"
    /\ impl = "v2"
    /\ pc = "aggr_identify"
    /\ idx = 0
    /\ questions = <<>>
    /\ strict_answers = <<>>
    /\ needing_help = <<>>
    /\ new_answers = <<>>
    /\ enhanced_answers \in SeqsUpTo(EnhancedFileEntries, MaxEntries)
    /\ unanswered = <<>>
    /\ aggressive_answers = <<>>
    /\ aggr_stats = InitialAggrStats
    /\ cur = NoCur
    /\ combined = EmptyDict
    /\ study_pairs = <<>>
    /\ stats = InitialStats
    /\ dataset = NoDataset
    /\ call = NoCall
    /\ document = <<>>
    /\ segments = <<>>
    /\ errors = <<>>
    /\ output = None

NextAggr ==
    \/ AggrIdentify \/ AggrBegin \/ AggrFindContext
    \/ AggrPatternMatch \/ AggrPatternsEnd
    \/ AggrContextInference \/ AggrContextSkipped
    \/ AggrKeywordInference \/ AggrKeywordSkipped
    \/ AggrReturn \/ AggrDone

SpecAggr == InitAggr /\ [][NextAggr]_vars

----------------------------------------------------------------------------
(* The segmenters of the V1 tools.  A document is the list of the matches of
   the delimiter (\d+)\] in it, in order; each carries its number and what the
   tools read of the text from its start to the start of the next match (the
   last one: to the end of the document), stripped: length is the length of
   that text, cleaned the length is_empty_segment is left with once the
   delimiter, the separators and the repeated whitespace are removed, formats
   what each of the three answer patterns of the V1 parser finds in it ("none":
   no match, "valid" / "invalid": a match whose cleaned text passes / fails
   validate_answer_text), raises whether parse_segment raises on it. *)

MaxDelimiters == 2      \* delimiter matches in a document

MinSegmentLength == 50

FormatNames == <<"ans_format", "letter_format", "hybrid_format">>

FormatMatches == [1..Len(FormatNames) -> {"none", "valid", "invalid"}]

NoFormat == <<"none", "none", "none">>

Chunk(number, length, cleaned, formats, raises) ==
    [number |-> number, length |-> length, cleaned |-> cleaned,
     formats |-> formats, raises |-> raises]

Chunks ==
    {Chunk(n, 49, 47, NoFormat, FALSE) : n \in QuestionNumbers}
    \cup {Chunk(n, 50, 48, NoFormat, FALSE) : n \in QuestionNumbers}
    \cup {Chunk(n, 51, 49, f, FALSE) :
              n \in QuestionNumbers,
              f \in {NoFormat, <<"valid", "none", "none">>}}
    \cup {Chunk(n, 60, 58, f, FALSE) :
              n \in QuestionNumbers,
              f \in {NoFormat, <<"none", "valid", "valid">>,
                     <<"invalid", "none", "valid">>}}
    \cup {Chunk(n, 60, 58, NoFormat, TRUE) : n \in QuestionNumbers}

Documents == SeqsUpTo(Chunks, MaxDelimiters)

(* AnswerParser.segment_by_questions *)
RECURSIVE segment_by_questions(_)
segment_by_questions(content) ==
    IF content = <<>> THEN <<>>
    ELSE (IF Head(content).length > MinSegmentLength
          THEN <<[number |-> Head(content).number, content |-> Head(content)]>>
          ELSE <<>>)
         \o segment_by_questions(Tail(content))

(* AggressiveParser.extract_segments: segments[question_num] = content *)
RECURSIVE extract_segments(_)
extract_segments(source_content) ==
    IF source_content = <<>> THEN EmptyDict
    ELSE LET last == source_content[Len(source_content)]
         IN  DictPut(extract_segments(SubSeq(source_content, 1,
                                             Len(source_content) - 1)),
                     last.number, last)

(* SegmentClassifier.extract_all_segments: the same loop *)
extract_all_segments(source_content) == extract_segments(source_content)

(* AnswerEnhancer.extract_segment_content: returns at the first match whose
   number is answer_number *)
extract_segment_content(source_content, answer_number) ==
    IF \E i \in 1..Len(source_content) :
           source_content[i].number = answer_number
    THEN LET i == CHOOSE i \in 1..Len(source_content) :
                    /\ source_content[i].number = answer_number
                    /\ \A j \in 1..(i - 1) :
                          source_content[j].number # answer_number
         IN  Some(source_content[i])
    ELSE None

(* SegmentClassifier.is_empty_segment *)
EmptySegmentLength == 50

is_empty_segment(segment_content) == segment_content.cleaned < EmptySegmentLength

TotalPdfQuestions == 681

(* sorted(list(numbers)), for numbers among 1..TotalPdfQuestions *)
Sorted(numbers) ==
    SelectSeq([i \in 1..TotalPdfQuestions |-> i], LAMBDA i : i \in numbers)

(* classify_segments with every source segment taken as unparsed *)
classify_segments_allUnparsed(source_content, parsed_numbers) ==
    LET source_segments == extract_all_segments(source_content)
        source_numbers == DOMAIN source_segments
    IN  [parsed |-> Sorted(parsed_numbers),
         missing |-> Sorted((1..TotalPdfQuestions) \ source_numbers),
         empty |-> Sorted({num \in source_numbers :
                             is_empty_segment(source_segments[num])}),
         has_content |-> Sorted({num \in source_numbers :
                                   ~is_empty_segment(source_segments[num])})]

(* SegmentClassifier.classify_segments: the categories of the result, for a
   source text and the answer numbers of the answers file *)
classify_segments(source_content, parsed_numbers) ==
    LET source_segments == extract_all_segments(source_content)
        all_pdf_questions == 1..TotalPdfQuestions
        source_numbers == DOMAIN source_segments
        missing_numbers == all_pdf_questions \ source_numbers
        unparsed_numbers == source_numbers \ parsed_numbers
    IN  [parsed |-> Sorted(parsed_numbers),
         missing |-> Sorted(missing_numbers),
         empty |-> Sorted({num \in unparsed_numbers :
                             is_empty_segment(source_segments[num])}),
         has_content |-> Sorted({num \in unparsed_numbers :
                                   ~is_empty_segment(source_segments[num])})]

----------------------------------------------------------------------------
(* The V1 answer parser (answer_parser.py): main reads the text file, segments
   it, parses every segment and writes the output file.  document is the
   content of the input file (None: the file cannot be read), strict_answers
   the list answers, stats the parser's self.stats, output the output file. *)

InitialParserStats ==
    [total_segments |-> 0, successfully_parsed |-> 0,
     unparseable_segments |-> <<>>, parsing_errors |-> <<>>]

(* AnswerParser.extract_answer_multiple_formats: the patterns in order; a
   match whose text fails validate_answer_text does not return *)
extract_answer_multiple_formats(formats) ==
    LET valid == {i \in 1..Len(FormatNames) : formats[i] = "valid"}
    IN  IF valid = {} THEN None
        ELSE Some([format |-> FormatNames[CHOOSE i \in valid :
                                             \A j \in valid : i <= j]])

(* AnswerParser.parse_segment *)
parse_segment(answer_number, segment_content) ==
    LET answer_data == extract_answer_multiple_formats(segment_content.formats)
    IN  IF answer_data = None THEN None
        ELSE Some(V1Answer(answer_number, answer_data[1].format, "strict"))

FirstN(seq, n) == SubSeq(seq, 1, IF Len(seq) < n THEN Len(seq) ELSE n)

(* AnswerParser.create_output; parsing_success_rate is round(rate, 3), in
   thousandths *)
create_output(answers, st) ==
    [metadata |->
        [total_segments |-> st.total_segments,
         total_answers |-> Len(answers),
         parsing_success_rate |->
            IF st.total_segments > 0
            THEN (2000 * st.successfully_parsed + st.total_segments)
                    \div (2 * st.total_segments)
            ELSE 0,
         unparseable_count |-> Len(st.unparseable_segments),
         parsing_errors |-> Len(st.parsing_errors)],
     answers |-> answers,
     parsing_report |->
        [unparseable_segments |-> st.unparseable_segments,
         parsing_errors |-> FirstN(st.parsing_errors, 5)]]

ParseV1Unchanged ==
    UNCHANGED <<document, errors, call, mode, impl, questions, needing_help,
                new_answers, enhanced_answers, unanswered, aggressive_answers,
                aggr_stats, cur, combined, study_pairs, dataset>>

(* main and the head of parse_answers: a file that is missing or cannot be
   read ends the run (sys.exit(1)); otherwise the content is segmented *)
ParseV1Read ==
    /\ mode = "parse_v1" /\ pc = "read"
    /\ IF document = None
       THEN /\ pc' = "aborted"
            /\ UNCHANGED segments
       ELSE /\ segments' = segment_by_questions(document[1])
            /\ pc' = "loop"
    /\ UNCHANGED <<idx, strict_answers, stats, output>>
    /\ ParseV1Unchanged

(* one iteration of the loop of parse_answers *)
ParseV1Step ==
    /\ mode = "parse_v1" /\ pc = "loop" /\ idx < Len(segments)
    /\ LET segment == segments[idx + 1]
           answer_data == parse_segment(segment.number, segment.content)
       IN  IF segment.content.raises
           THEN /\ stats' = [stats EXCEPT !.parsing_errors =
                               Append(@, [answer_number |-> segment.number])]
                /\ UNCHANGED strict_answers
           ELSE IF answer_data # None
           THEN /\ strict_answers' = Append(strict_answers, answer_data[1])
                /\ stats' = [stats EXCEPT !.successfully_parsed = @ + 1]
           ELSE /\ stats' = [stats EXCEPT !.unparseable_segments =
                               Append(@, [answer_number |-> segment.number])]
                /\ UNCHANGED strict_answers
    /\ idx' = idx + 1
    /\ UNCHANGED <<pc, segments, output>>
    /\ ParseV1Unchanged

(* the tail of parse_answers and main's json.dump of the result *)
ParseV1Output ==
    /\ mode = "parse_v1" /\ pc = "loop" /\ idx = Len(segments)
    /\ stats' = [stats EXCEPT !.total_segments = Len(segments)]
    /\ output' = Some(create_output(strict_answers, stats'))
    /\ pc' = "done"
    /\ UNCHANGED <<idx, segments, strict_answers>>
    /\ ParseV1Unchanged

InitParseV1 ==
    /\ mode = "parse_v1" /\ impl = "v1" /\ pc = "read"
    /\ document \in {None} \cup {Some(d) : d \in Documents}
    /\ segments = <<>>
    /\ errors = <<>>
    /\ output = None
    /\ call = NoCall
    /\ idx = 0
    /\ questions = <<>>
    /\ strict_answers = <<>>
    /\ needing_help = <<>>
    /\ new_answers = <<>>
    /\ enhanced_answers = <<>>
    /\ unanswered = <<>>
    /\ aggressive_answers = <<>>
    /\ aggr_stats = InitialAggrStats
    /\ cur = NoCur
    /\ combined = EmptyDict
    /\ study_pairs = <<>>
    /\ stats = InitialParserStats
    /\ dataset = NoDataset

NextParseV1 == ParseV1Read \/ ParseV1Step \/ ParseV1Output

SpecParseV1 == InitParseV1 /\ [][NextParseV1]_vars

----------------------------------------------------------------------------
(* The format detectors.  format_scores is what the loops over the sampled
   pages leave: for each format the number of matches of its pattern.  Every
   match of the pattern 'legacy' (Question\s+#(\d+)\s+Topic\s+(\d+)) is one of
   the pattern 'standard' (Question\s+(?:#)?(\d+)[:,]?\s+Topic\s+(\d+)), so
   the count of 'standard' is at least that of 'legacy'. *)

MaxMatches == 2     \* matches of one format pattern in the sample

(* the keys of format_scores, in insertion order *)
FormatOrder ==
    <<"surepassexam", "simple_numbered", "numbered", "standard", "legacy">>

FormatScores ==
    {sc \in [Range(FormatOrder) -> 0..MaxMatches] :
        sc["standard"] >= sc["legacy"]}

(* the keys of format_patterns of v2_pdf_parser_fixed.py *)
FixedFormats == {"surepassexam", "numbered", "standard"}

FixedFormatScores == [FixedFormats -> 0..MaxMatches]

MaxScore(format_scores) ==
    CHOOSE m \in {format_scores[f] : f \in DOMAIN format_scores} :
        \A f \in DOMAIN format_scores : format_scores[f] <= m

(* max(format_scores, key=format_scores.get): the first key, in insertion
   order, whose score is the greatest *)
MaxKey(format_scores) ==
    FormatOrder[CHOOSE i \in 1..Len(FormatOrder) :
        /\ format_scores[FormatOrder[i]] = MaxScore(format_scores)
        /\ \A j \in 1..(i - 1) :
              format_scores[FormatOrder[j]] # MaxScore(format_scores)]

(* V2PDFParser.detect_pdf_format; opened is FALSE when the PDF cannot be
   opened *)
V2PDFParser_detect_pdf_format(opened, format_scores) ==
    IF ~opened THEN "legacy"
    ELSE IF MaxScore(format_scores) = 0 THEN "legacy"
    ELSE MaxKey(format_scores)

(* V2AnswerParser.detect_pdf_format *)
V2AnswerParser_detect_pdf_format(opened, format_scores) ==
    IF ~opened THEN "standard"
    ELSE IF MaxScore(format_scores) = 0 THEN "standard"
    ELSE MaxKey(format_scores)

(* detect_format of v2_pdf_parser_fixed.py, on the counts of its three
   patterns *)
detect_format(matches) ==
    LET surepass_matches == matches["surepassexam"]
        numbered_matches == matches["numbered"]
        standard_matches == matches["standard"]
    IN  IF /\ surepass_matches >= Max(numbered_matches, standard_matches)
           /\ surepass_matches > 0
        THEN "surepassexam"
        ELSE IF numbered_matches > standard_matches THEN "numbered"
        ELSE "standard"

----------------------------------------------------------------------------
(* The keyword lists of the aggressive parsers.  aws_keywords and
   action_keywords are Python sets of strings: the order in which a for loop
   goes through them is fixed within a process and differs from one process
   to the next (string hashing is seeded per process), so a run is given an
   iteration order of each set.  A text is modelled by the keywords that
   occur in it; three service keywords and two action keywords stand for the
   sets of the source. *)

AwsKeywords == {"S3", "EC2", "VPC"}

ActionKeywords == {"use", "create"}

KeywordLimit == 10

AwsKeywordLimit == 8

IterationOrders(S) ==
    {o \in [1..Cardinality(S) -> S] :
        \A i, j \in 1..Cardinality(S) : o[i] = o[j] => i = j}

Title(action) == IF action = "use" THEN "Use" ELSE "Create"

TitleAll(actions) == [i \in 1..Len(actions) |-> Title(actions[i])]

(* V2AggressiveParser.extract_keywords *)
extract_keywords(text, aws_order, action_order) ==
    FirstN(SelectSeq(aws_order, LAMBDA keyword : keyword \in text.aws)
           \o TitleAll(SelectSeq(action_order,
                                 LAMBDA action : action \in text.actions)),
           KeywordLimit)

(* AggressiveParser.extract_aws_keywords *)
extract_aws_keywords(text, aws_order) ==
    FirstN(SelectSeq(aws_order, LAMBDA keyword : keyword \in text.aws),
           AwsKeywordLimit)

----------------------------------------------------------------------------
(* The question parsers.  A question's content is modelled by the length of
   its question text and the letters of the options found in it, in order *)

MaxListedOptions == 3   \* options of a content with arbitrary letters

ExpectedLetters == <<"A", "B", "C", "D", "E">>

OptionLetterLists ==
    SeqsUpTo({"A", "B", "C"}, MaxListedOptions)
    \cup {SubSeq(ExpectedLetters \o <<"E">>, 1, n) : n \in 0..6}

QuestionContents ==
    [question_len : {5, 15, 25}, letters : OptionLetterLists]

(* validate_question_structure of PDFParser and of V2PDFParser (the same
   code) *)
validate_question_structure(question_len, options) ==
    IF question_len < 20 THEN FALSE
    ELSE IF Len(options) < 3 THEN FALSE
    ELSE IF Len(options) > 5 THEN FALSE
    ELSE IF options[1] # "A" THEN FALSE
    ELSE \A i \in 1..Len(options) : options[i] = ExpectedLetters[i]

ParsedQuestion(content) ==
    [question_len |-> content.question_len, options |-> content.letters]

(* parse_question_content of PDFParser and of V2PDFParser: no options or an
   invalid structure gives None *)
parse_question_content(content) ==
    IF content.letters = <<>> THEN None
    ELSE IF ~validate_question_structure(content.question_len, content.letters)
    THEN None
    ELSE Some(ParsedQuestion(content))

(* V2PDFParserFixed.parse_question_content: only a question text shorter
   than 10 characters gives None *)
parse_question_content_fixed(content) ==
    IF content.question_len < 10 THEN None
    ELSE Some(ParsedQuestion(content))

QuestionParsers ==
    {"PDFParser.parse_question_content", "V2PDFParser.parse_question_content",
     "V2PDFParserFixed.parse_question_content"}

----------------------------------------------------------------------------
(* clean_answer_text of AnswerParser and of AnswerEnhancer (the same
   truncation): the text, once its whitespace is collapsed, is the list of
   its sentences as re.split(r'(?<=[.!])\s+') gives them, each modelled by
   its length; the result is the list of the positions of the sentences kept
   and its length. *)

MaxSentences == 3       \* sentences of a raw match

LongTextLength == 200

SentenceLengths == {40, 60, 120, 160}

RECURSIVE JoinedLength(_)
JoinedLength(sentences) ==
    IF sentences = <<>> THEN 0
    ELSE IF Len(sentences) = 1 THEN sentences[1]
    ELSE sentences[1] + 1 + JoinedLength(Tail(sentences))

clean_answer_text(sentences) ==
    IF JoinedLength(sentences) > LongTextLength
    THEN LET first == [kept |-> <<1>>, length |-> sentences[1]]
             second == IF first.length < 100 /\ Len(sentences) > 1
                       THEN [kept |-> Append(first.kept, 2),
                             length |-> first.length + 1 + sentences[2]]
                       ELSE first
             third == IF second.length < 150 /\ Len(sentences) > 2
                      THEN [kept |-> Append(second.kept, 3),
                            length |-> second.length + 1 + sentences[3]]
                      ELSE second
         IN  third
    ELSE [kept |-> [i \in 1..Len(sentences) |-> i],
          length |-> JoinedLength(sentences)]

----------------------------------------------------------------------------
(* Functions of the tools called on their own, on arguments drawn from small
   sets *)

MaxOptions == 3         \* options of the question a function is called on

Called(fn, in) == [fn |-> fn, state |-> "called", in |-> in, out |-> None]

Returned(c, out) == [c EXCEPT !.state = "returned", !.out = Some(out)]

IsCalled(fn) == mode = "function" /\ call.fn = fn /\ call.state = "called"

FnUnchanged ==
    UNCHANGED <<document, segments, errors, output, mode, impl, pc, idx, questions, strict_answers, needing_help,
                new_answers, enhanced_answers, unanswered, aggressive_answers,
                aggr_stats, cur, combined, study_pairs, stats, dataset>>

(* what fuzzy_match_answer_text can read of one option: ratios on both sides
   of its 0.4 threshold, with and without full keyword overlap *)
FuzzyFeatures ==
    {[similarity |-> s, keyword_bonus |-> b] :
        s \in {0, 4000, ConfScale}, b \in {0, ConfScale}}

ProcessExtractedAnswerCalls ==
    {Called("process_extracted_answer",
            [letters |-> l, option_count |-> n, similarity |-> s,
             fuzzy |-> <<>>]) :
        l \in {<<"A">>, <<"B", "E">>, <<"E", "A", "E">>},
        n \in 1..MaxOptions, s \in {0, 3000, 5000, ConfScale}}
    \cup {Called("process_extracted_answer",
                 [letters |-> <<>>, option_count |-> MaxOptions,
                  similarity |-> 0, fuzzy |-> f]) :
            f \in [1..MaxOptions -> FuzzyFeatures]}

CallProcessExtractedAnswer ==
    /\ IsCalled("process_extracted_answer")
    /\ call' = Returned(call,
                 process_extracted_answer(call.in.letters, call.in.option_count,
                                          call.in.similarity, call.in.fuzzy))
    /\ FnUnchanged

(* the segmenters and the classifier look at a segment's number and lengths
   only: they are called on documents without answer formats *)
PlainDocuments ==
    SeqsUpTo({c \in Chunks : c.formats = NoFormat /\ ~c.raises}, MaxDelimiters)

SegmenterCalls ==
    {Called(fn, [content |-> d]) :
        fn \in {"segment_by_questions", "extract_segments",
                "extract_all_segments"},
        d \in PlainDocuments}

CallSegmentByQuestions ==
    /\ IsCalled("segment_by_questions")
    /\ call' = Returned(call, segment_by_questions(call.in.content))
    /\ FnUnchanged

CallExtractSegments ==
    /\ IsCalled("extract_segments")
    /\ call' = Returned(call, extract_segments(call.in.content))
    /\ FnUnchanged

CallExtractAllSegments ==
    /\ IsCalled("extract_all_segments")
    /\ call' = Returned(call, extract_all_segments(call.in.content))
    /\ FnUnchanged

ExtractSegmentContentCalls ==
    {Called("extract_segment_content", [content |-> d, answer_number |-> n]) :
        d \in PlainDocuments, n \in QuestionNumbers}

CallExtractSegmentContent ==
    /\ IsCalled("extract_segment_content")
    /\ call' = Returned(call, extract_segment_content(call.in.content,
                                                      call.in.answer_number))
    /\ FnUnchanged

ClassifySegmentsCalls ==
    {Called("classify_segments", [content |-> d, parsed_numbers |-> p]) :
        d \in PlainDocuments, p \in SUBSET QuestionNumbers}

CallClassifySegments ==
    /\ IsCalled("classify_segments")
    /\ call' = Returned(call, classify_segments(call.in.content,
                                                 call.in.parsed_numbers))
    /\ FnUnchanged

DetectFormatCalls ==
    {Called(fn, [opened |-> TRUE, format_scores |-> sc]) :
        fn \in {"V2PDFParser.detect_pdf_format",
                "V2AnswerParser.detect_pdf_format"},
        sc \in FormatScores}
    \cup {Called(fn, [opened |-> FALSE,
                      format_scores |-> [f \in Range(FormatOrder) |-> 0]]) :
              fn \in {"V2PDFParser.detect_pdf_format",
                      "V2AnswerParser.detect_pdf_format"}}
    \cup {Called("detect_format", [opened |-> TRUE, format_scores |-> sc]) :
              sc \in FixedFormatScores}

CallV2PDFParserDetectPdfFormat ==
    /\ IsCalled("V2PDFParser.detect_pdf_format")
    /\ call' = Returned(call, V2PDFParser_detect_pdf_format(
                                 call.in.opened, call.in.format_scores))
    /\ FnUnchanged

CallV2AnswerParserDetectPdfFormat ==
    /\ IsCalled("V2AnswerParser.detect_pdf_format")
    /\ call' = Returned(call, V2AnswerParser_detect_pdf_format(
                                 call.in.opened, call.in.format_scores))
    /\ FnUnchanged

CallDetectFormat ==
    /\ IsCalled("detect_format")
    /\ call' = Returned(call, detect_format(call.in.format_scores))
    /\ FnUnchanged

ExtractAnswerCalls ==
    {Called("extract_answer_multiple_formats", [formats |-> f]) :
        f \in FormatMatches}
    \cup {Called("extract_answer_multiple_patterns", [matches |-> m]) :
              m \in [1..Len(StrictPatternNames) -> BOOLEAN]}

CallExtractAnswerMultipleFormats ==
    /\ IsCalled("extract_answer_multiple_formats")
    /\ call' = Returned(call, extract_answer_multiple_formats(call.in.formats))
    /\ FnUnchanged

CallExtractAnswerMultiplePatterns ==
    /\ IsCalled("extract_answer_multiple_patterns")
    /\ call' = Returned(call, extract_answer_multiple_patterns(call.in.matches))
    /\ FnUnchanged

KeywordCalls ==
    {Called(fn, [text |-> [aws |-> a, actions |-> w]]) :
        fn \in {"extract_keywords", "extract_aws_keywords"},
        a \in SUBSET AwsKeywords, w \in SUBSET ActionKeywords}

KeywordsOfRun(c) ==
    IF c.fn = "extract_keywords"
    THEN {extract_keywords(c.in.text, o, p) :
             o \in IterationOrders(AwsKeywords),
             p \in IterationOrders(ActionKeywords)}
    ELSE {extract_aws_keywords(c.in.text, o) :
             o \in IterationOrders(AwsKeywords)}

(* a run of the parser on the text: out is the list of the keyword lists of
   the runs made so far on this text *)
CallExtractKeywords ==
    /\ \/ IsCalled("extract_keywords")
       \/ IsCalled("extract_aws_keywords")
    /\ \E keywords \in KeywordsOfRun(call) :
          call' = Returned(call, <<keywords>>)
    /\ FnUnchanged

(* a second run, in a new process, on the same text *)
RerunExtractKeywords ==
    /\ mode = "function"
    /\ call.fn \in {"extract_keywords", "extract_aws_keywords"}
    /\ call.state = "returned"
    /\ Len(call.out[1]) = 1
    /\ \E keywords \in KeywordsOfRun(call) :
          call' = [call EXCEPT !.out = Some(Append(call.out[1], keywords))]
    /\ FnUnchanged

(* calls of the two confidence functions of the aggressive parsers *)
MaxKeywordCount == 4    \* keywords found in an answer text

ConfidenceLengths == {14, 15, 20, 100, 200, 201, 300, 301, 500, 501}

ConfidenceFeatures ==
    [clean_len : ConfidenceLengths,
     aws_count : 0..MaxKeywordCount,
     action_count : {0, 4},
     overlap : {0, 5},
     round_err : {-1, 0, 1}]

ConfidenceCalls ==
    {Called("calculate_aggressive_confidence",
            [c |-> c, method |-> m, has_question_text |-> q]) :
        c \in ConfidenceFeatures,
        m \in {"letter_flexible", "keyword_inference", "unknown"},
        q \in BOOLEAN}
    \cup {Called("calculate_confidence_aggressive",
                 [c |-> c, method |-> m, has_question_text |-> FALSE]) :
              c \in {f \in ConfidenceFeatures : f.overlap = 0},
              m \in {"letter_flexible", "unknown"}}

CallCalculateAggressiveConfidence ==
    /\ IsCalled("calculate_aggressive_confidence")
    /\ call' = Returned(call, calculate_aggressive_confidence(
                                 call.in.c, call.in.method,
                                 call.in.has_question_text))
    /\ FnUnchanged

CallCalculateConfidenceAggressive ==
    /\ IsCalled("calculate_confidence_aggressive")
    /\ call' = Returned(call, calculate_confidence_aggressive(call.in.c,
                                                              call.in.method))
    /\ FnUnchanged

ParseQuestionCalls ==
    {Called(fn, [content |-> c]) : fn \in QuestionParsers, c \in QuestionContents}

CallParseQuestionContent ==
    /\ \/ IsCalled("PDFParser.parse_question_content")
       \/ IsCalled("V2PDFParser.parse_question_content")
    /\ call' = Returned(call, parse_question_content(call.in.content))
    /\ FnUnchanged

CallParseQuestionContentFixed ==
    /\ IsCalled("V2PDFParserFixed.parse_question_content")
    /\ call' = Returned(call, parse_question_content_fixed(call.in.content))
    /\ FnUnchanged

(* the answer letters the patterns capture ([A-E], case ignored), taken
   through index = ord(letter.upper()) - ord('A'), letter =
   chr(ord('A') + index) and the index mapping again *)
AnswerAlphabet == {"A", "B", "C", "D", "E", "a", "b", "c", "d", "e"}

LetterCalls == {Called("letter_round_trip", [letter |-> l]) : l \in AnswerAlphabet}

CallLetterRoundTrip ==
    /\ IsCalled("letter_round_trip")
    /\ LET index == LetterToIndex(call.in.letter)
           letter == IndexToLetter(index)
       IN  call' = Returned(call, [index |-> index, letter |-> letter,
                                   index_again |-> LetterToIndex(letter)])
    /\ FnUnchanged

CleanAnswerTextCalls ==
    {Called("clean_answer_text", [sentences |-> t]) :
        t \in SeqsUpTo(SentenceLengths, MaxSentences) \ {<<>>}}

CallCleanAnswerText ==
    /\ IsCalled("clean_answer_text")
    /\ call' = Returned(call, clean_answer_text(call.in.sentences))
    /\ FnUnchanged

InferFromContextCalls ==
    {Called("infer_from_context", [scores |-> sc, extra |-> x]) :
        sc \in UNION {OptionScores(n) : n \in 0..MaxOptions},
        x \in UNION {OptionExtraLetters(n) : n \in 0..MaxOptions}}

CallInferFromContext ==
    /\ IsCalled("infer_from_context")
    /\ Len(call.in.scores) = Len(call.in.extra)
    /\ call' = Returned(call, infer_from_context(call.in.scores, call.in.extra))
    /\ FnUnchanged

(* merge_ai_answers.main on the two files it loads.  study_data is the list
   under 'study_data'; ai_data has the list under 'ai_answers', or lacks the
   key.  A confidence is in units of 1/ConfScale, a coverage percentage in
   tenths of a percent. *)
MergeTotalQuestions == 681

MergeBaselineAnswered == 526

AiConfidence == (8 * ConfScale) \div 10

(* the records the combiner writes: create_question_only_pair for a question
   without answer, create_study_pair for one with *)
StudyRecords ==
    {[question_number |-> n, answer |-> None,
      confidence_level |-> "missing", completeness |-> "incomplete"]
        : n \in QuestionNumbers}
    \cup {[question_number |-> n,
           answer |-> Some([correct_answer |-> 0,
                            parsing_confidence |-> ConfScale,
                            source |-> "enhanced"]),
           confidence_level |-> "high", completeness |-> "complete"]
            : n \in QuestionNumbers}

AiAnswers == [question_number : QuestionNumbers, correct_answer : {1, 2}]

AiData ==
    [has_ai_answers : {TRUE}, ai_answers : SeqsUpTo(AiAnswers, MaxAnswers)]
    \cup {[has_ai_answers |-> FALSE, ai_answers |-> <<>>]}

(* ai_answers_lookup: for a number, the last AI answer that has it *)
ai_answers_lookup(ai_data) ==
    LET answers == IF ai_data.has_ai_answers THEN ai_data.ai_answers ELSE <<>>
        numbers == {answers[k].question_number : k \in 1..Len(answers)}
    IN  [n \in numbers |->
            answers[CHOOSE k \in 1..Len(answers) :
                       /\ answers[k].question_number = n
                       /\ \A j \in (k + 1)..Len(answers) :
                             answers[j].question_number # n]]

AiAnswerRecord(pair, ai_answer) ==
    [pair EXCEPT !.answer = Some([correct_answer |-> ai_answer.correct_answer,
                                  parsing_confidence |-> AiConfidence,
                                  source |-> "ai_generated"]),
                 !.confidence_level = "high",
                 !.completeness = "ai_generated"]

(* round(x / y * 1000) *)
RoundedPerMille(x, y) == (2 * 1000 * x + y) \div (2 * y)

MergeResult(study_data, filled, lookup) ==
    LET merged_count == Cardinality(filled)
    IN  [study_data |->
             [i \in 1..Len(study_data) |->
                 IF i \in filled
                 THEN AiAnswerRecord(study_data[i],
                                     lookup[study_data[i].question_number])
                 ELSE study_data[i]],
         ai_answers_merged |-> merged_count,
         final_coverage |->
             [total_questions |-> MergeTotalQuestions,
              answered_questions |-> MergeBaselineAnswered + merged_count,
              coverage_percentage |->
                  RoundedPerMille(MergeBaselineAnswered + merged_count,
                                  MergeTotalQuestions)]]

(* main with the test on pair['answer'] left out *)
merge_ai_answers_overwrite(study_data, ai_data) ==
    LET lookup == ai_answers_lookup(ai_data)
    IN  MergeResult(study_data,
                    {i \in 1..Len(study_data) :
                        study_data[i].question_number \in DOMAIN lookup},
                    lookup)

merge_ai_answers(study_data, ai_data) ==
    LET lookup == ai_answers_lookup(ai_data)
    IN  MergeResult(study_data,
                    {i \in 1..Len(study_data) :
                        /\ study_data[i].answer = None
                        /\ study_data[i].question_number \in DOMAIN lookup},
                    lookup)

MergeAiAnswersCalls ==
    {Called("merge_ai_answers", [study_data |-> sd, ai_data |-> ai]) :
        sd \in SeqsUpTo(StudyRecords, MaxQuestions), ai \in AiData}

CallMergeAiAnswers ==
    /\ IsCalled("merge_ai_answers")
    /\ call' = Returned(call, merge_ai_answers(call.in.study_data,
                                               call.in.ai_data))
    /\ FnUnchanged

FnCalls ==
    MergeAiAnswersCalls \cup
    {c \in InferFromContextCalls : Len(c.in.scores) = Len(c.in.extra)} \cup
    CleanAnswerTextCalls \cup
    LetterCalls \cup
    ParseQuestionCalls \cup
    ConfidenceCalls \cup
    KeywordCalls \cup
    ExtractAnswerCalls \cup
    ProcessExtractedAnswerCalls \cup SegmenterCalls
    \cup ExtractSegmentContentCalls \cup ClassifySegmentsCalls
    \cup DetectFormatCalls

InitFn ==
    /\ mode = "function"
    /\ impl = "v2"
    /\ pc = "call"
    /\ idx = 0
    /\ questions = <<>>
    /\ strict_answers = <<>>
    /\ needing_help = <<>>
    /\ new_answers = <<>>
    /\ enhanced_answers = <<>>
    /\ unanswered = <<>>
    /\ aggressive_answers = <<>>
    /\ aggr_stats = InitialAggrStats
    /\ cur = NoCur
    /\ combined = EmptyDict
    /\ study_pairs = <<>>
    /\ stats = InitialStats
    /\ dataset = NoDataset
    /\ call \in FnCalls
    /\ document = <<>>
    /\ segments = <<>>
    /\ errors = <<>>
    /\ output = None

NextFn ==
    \/ CallProcessExtractedAnswer
    \/ CallSegmentByQuestions \/ CallExtractSegments \/ CallExtractAllSegments
    \/ CallExtractSegmentContent \/ CallClassifySegments
    \/ CallV2PDFParserDetectPdfFormat \/ CallV2AnswerParserDetectPdfFormat
    \/ CallDetectFormat
    \/ CallExtractAnswerMultipleFormats \/ CallExtractAnswerMultiplePatterns
    \/ CallExtractKeywords \/ RerunExtractKeywords
    \/ CallCalculateAggressiveConfidence \/ CallCalculateConfidenceAggressive
    \/ CallParseQuestionContent \/ CallParseQuestionContentFixed
    \/ CallLetterRoundTrip \/ CallCleanAnswerText \/ CallInferFromContext
    \/ CallMergeAiAnswers

SpecFn == InitFn /\ [][NextFn]_vars

----------------------------------------------------------------------------
(* Properties of the combiner *)

Sourced(answer, src) == [answer EXCEPT !.source = src]

(* positions of the aggressive list whose answer merge does not keep: the
   number is already taken by an enhanced answer or by an earlier aggressive
   answer *)
DiscardedAggressive ==
    {i \in 1..Len(aggressive_answers) :
        \/ aggressive_answers[i].question_number \in NumbersOf(enhanced_answers)
        \/ \E j \in 1..(i - 1) :
              aggressive_answers[j].question_number
                = aggressive_answers[i].question_number}

(* C1: merge_answer_sources keeps, for every question number of the enhanced
   list, an answer of the enhanced list and never an aggressive one; an
   aggressive answer is kept only under a number not yet in the map; every
   discarded aggressive answer adds exactly one to duplicate_answers, and the
   merge completes. *)
C1_MergePrecedence ==
    [][(pc = "merge" /\ pc' = "match") =>
        /\ DOMAIN combined'
             = NumbersOf(enhanced_answers) \cup NumbersOf(aggressive_answers)
        /\ \A n \in NumbersOf(enhanced_answers) :
             \E i \in 1..Len(enhanced_answers) :
                /\ enhanced_answers[i].question_number = n
                /\ combined'[n] = Sourced(enhanced_answers[i], "enhanced")
        /\ \A n \in DOMAIN combined' :
             combined'[n].source = "aggressive" =>
                /\ n \notin NumbersOf(enhanced_answers)
                /\ \E i \in 1..Len(aggressive_answers) \ DiscardedAggressive :
                      combined'[n] = Sourced(aggressive_answers[i], "aggressive")
        /\ stats'.duplicate_answers
             = stats.duplicate_answers + Cardinality(DiscardedAggressive)
      ]_vars

C1_Witness ==
    /\ mode = "combine"
    /\ pc = "match"
    /\ stats.duplicate_answers >= 1
    /\ \E n \in DOMAIN combined : combined[n].source = "aggressive"
    /\ \E n \in DOMAIN combined : combined[n].source = "enhanced"

(* C5: match_questions_answers yields exactly one study record per catalog
   question, in catalog order; the record's answer is null exactly when the
   question number is not in the merged map; on a fresh combiner
   matched_pairs + unmatched_questions is the number of questions. *)
C5_OneRecordPerQuestion ==
    pc \in {"final", "done"} =>
        /\ Len(study_pairs) = Len(questions)
        /\ \A i \in 1..Len(questions) :
             /\ study_pairs[i].question_number = questions[i].question_number
             /\ study_pairs[i].question_id = questions[i].question_id
             /\ (study_pairs[i].answer = None)
                  <=> (questions[i].question_number \notin DOMAIN combined)
             /\ study_pairs[i].answer # None =>
                  study_pairs[i].answer = Some(combined[questions[i].question_number])
        /\ stats.matched_pairs + stats.unmatched_questions = Len(questions)
        /\ dataset.status = "ok" =>
             /\ Len(dataset.study_data) = Len(questions)
             /\ \A r \in Range(study_pairs) :
                  Cardinality({i \in 1..Len(study_pairs) : study_pairs[i] = r})
                    = Cardinality({i \in 1..Len(dataset.study_data) :
                                      dataset.study_data[i] = r})

C5_Witness ==
    /\ mode = "combine"
    /\ pc = "done"
    /\ dataset.status = "ok"
    /\ \E i \in 1..Len(study_pairs) : study_pairs[i].answer = None
    /\ \E i \in 1..Len(study_pairs) : study_pairs[i].answer # None

(* p, in tenths of a percent, is 100 * a / n rounded to one decimal *)
IsPercentRounded(p, a, n) ==
    LET d == p * n - 1000 * a
    IN  2 * (IF d < 0 THEN -d ELSE d) <= n

(* C6: the coverage percentage of a dataset built from a non-empty catalog
   is 100 * (records with a non-null answer) / (size of the catalog given),
   rounded to one decimal, in the metadata and in the coverage statistics. *)
C6_CoverageOverCatalog ==
    (dataset.status = "ok" /\ Len(questions) > 0) =>
        LET answered == Cardinality(AnsweredPairs(dataset.study_data))
        IN  /\ IsPercentRounded(dataset.coverage_percentage, answered,
                                Len(questions))
            /\ IsPercentRounded(dataset.coverage_statistics.coverage_percentage,
                                answered, Len(questions))
            /\ dataset.total_questions = Len(questions)

C6_Witness ==
    /\ mode = "combine"
    /\ dataset.status = "ok"
    /\ Len(questions) = 2
    /\ Cardinality(AnsweredPairs(dataset.study_data)) = 1
    /\ dataset.coverage_percentage = 500

----------------------------------------------------------------------------
(* Properties of the aggressive parser *)

InCall(c) == c.phase # "idle"

HasRun(c, method) == InCall(c) /\ method \in Range(c.ran)

(* C7: in extract_answer_aggressively pattern extraction runs first; context
   inference runs only when there is no pattern candidate or the best
   confidence is below 0.4; keyword inference runs only when there is still
   no candidate or the best confidence so far is below 0.3; no method runs
   before an earlier one. *)
C7_Escalation ==
    [][/\ (InCall(cur') /\ cur'.phase # "find_context") =>
            /\ Len(cur'.ran) >= 1
            /\ cur'.ran[1] = "pattern"
            /\ \A i \in 1..Len(cur'.ran) :
                 /\ cur'.ran[i] = "context" => i = 2
                 /\ cur'.ran[i] = "keyword" => i = 3
       /\ (InCall(cur) /\ InCall(cur') /\ cur.phase # "find_context"
             /\ cur'.matches # cur.matches) =>
            cur.ran = <<"pattern">>
       /\ (HasRun(cur', "context") /\ ~HasRun(cur, "context")) =>
            /\ HasRun(cur, "pattern")
            /\ (cur.best_answer = None \/ cur.best_confidence * 10 < 4 * ConfScale)
       /\ (HasRun(cur', "keyword") /\ ~HasRun(cur, "keyword")) =>
            /\ HasRun(cur, "pattern")
            /\ (cur.best_answer = None \/ cur.best_confidence * 10 < 3 * ConfScale)
      ]_vars

C7_Witness ==
    /\ mode = "aggr"
    /\ cur.phase = "finish"
    /\ cur.ran = <<"pattern", "context">>
    /\ cur.best_method = "letter_flexible"
    /\ cur.best_confidence * 10 >= 3 * ConfScale

InferenceMethods == {"context_inference", "keyword_inference"}

(* C8: an inferred candidate replaces the current best only when its
   confidence is strictly higher; a pattern match with confidence 0.4 or more
   is never replaced by an inference, and a context-inference result is never
   replaced by keyword inference. *)
C8_NoWeakOverride ==
    [][(InCall(cur) /\ InCall(cur') /\ cur.phase # "find_context") =>
        /\ (cur'.best_method \in InferenceMethods
              /\ cur'.best_method # cur.best_method) =>
             /\ cur'.best_confidence > cur.best_confidence
             /\ cur'.best_confidence =
                  (IF cur'.best_method = "context_inference"
                   THEN (35 * ConfScale) \div 100 ELSE (25 * ConfScale) \div 100)
        /\ (cur.best_method \notin InferenceMethods \cup {"none"}
              /\ cur.best_confidence * 10 >= 4 * ConfScale
              /\ cur.phase # "patterns") =>
             /\ cur'.best_method = cur.best_method
             /\ cur'.best_confidence = cur.best_confidence
             /\ cur'.best_answer = cur.best_answer
        /\ cur.best_method = "context_inference" =>
             /\ cur'.best_method = "context_inference"
             /\ cur'.best_answer = cur.best_answer
      ]_vars

C8_Witness ==
    /\ mode = "aggr"
    /\ cur.phase = "method3"
    /\ cur.ran = <<"pattern", "context">>
    /\ cur.best_method = "letter_flexible"
    /\ cur.best_confidence >= (35 * ConfScale) \div 100
    /\ cur.best_confidence * 10 < 4 * ConfScale

(* C9: every answer record produced by context inference or by keyword
   inference requires manual review and names the inference method in its
   issue list. *)
C9_InferenceFlagged ==
    \A i \in 1..Len(aggressive_answers) :
        LET a == aggressive_answers[i]
        IN  a.extraction_method \in InferenceMethods =>
                /\ a.requires_manual_review
                /\ \E k \in 1..Len(a.mapping_issues) :
                      a.mapping_issues[k].kind = a.extraction_method

C9_Witness ==
    /\ mode = "aggr"
    /\ pc = "done"
    /\ \E i \in 1..Len(aggressive_answers) :
          /\ aggressive_answers[i].extraction_method = "context_inference"
          /\ aggressive_answers[i].requires_manual_review

----------------------------------------------------------------------------
(* Properties of the extraction stages *)

StrictAnswersOf(question_id) ==
    {i \in 1..Len(strict_answers) : strict_answers[i].question_id = question_id}

EnhancerAnswersOf(question_id) ==
    {i \in 1..Len(new_answers) : new_answers[i].question_id = question_id}

(* C2: when the strict parser and the enhancer both produced an answer for a
   question, the final study record of that question carries the strict
   parser's answer. *)
C2_StrictAnswerRetained ==
    (mode = "pipeline" /\ pc = "done" /\ dataset.status = "ok") =>
        \A i \in 1..Len(dataset.study_data) :
            LET r == dataset.study_data[i]
            IN  (StrictAnswersOf(r.question_id) # {}
                   /\ EnhancerAnswersOf(r.question_id) # {}) =>
                    /\ r.answer # None
                    /\ r.answer[1].origin = "strict"

(* C3: every catalog question left without a valid answer by the strict
   parser and the enhancer is handed to the aggressive parser. *)
C3_AggressiveTriesEveryUnanswered ==
    (mode = "pipeline" /\ pc \in {"load", "merge", "match", "final", "done"}) =>
        \A i \in 1..Len(questions) :
            (~\E k \in 1..Len(enhanced_answers) :
                  /\ enhanced_answers[k].question_id = questions[i].question_id
                  /\ has_valid_answer(enhanced_answers[k])) =>
                /\ aggr_stats.aggressive_attempts >= 1
                /\ \E k \in 1..Len(unanswered) :
                      unanswered[k].question_id = questions[i].question_id

(* C4 as stated: no answer added by an enhancer belongs to a question that
   already has a strict answer. *)
C4_OnlyWithoutStrictAnswer ==
    \A i \in 1..Len(new_answers) :
        /\ StrictAnswersOf(new_answers[i].question_id) = {}
        /\ new_answers[i].question_number \notin NumbersOf(strict_answers)

Max_(S) == CHOOSE x \in S : \A y \in S : y <= x

(* the strict answer the V2 enhancer looks at for a question: the last one
   under its question_id; it is weak when its confidence is below 0.5, it is
   flagged for manual review or it has no correct answers *)
WeakOrNoStrictAnswer(question_id) ==
    LET of == StrictAnswersOf(question_id)
    IN  of = {} \/
        LET answer == strict_answers[Max_(of)]
        IN  \/ answer.validation_confidence * 2 < ConfScale
            \/ answer.requires_manual_review
            \/ Len(answer.correct_answers) = 0

(* C4 amended: the V1 enhancer adds answers only under numbers that have no
   strict answer; the V2 enhancer attempts, and adds answers for, only
   questions with no strict answer or a weak one. *)
C4_OnlyWithoutConfidentStrictAnswer ==
    IF impl = "v1"
    THEN \A i \in 1..Len(new_answers) :
            new_answers[i].question_number \notin NumbersOf(strict_answers)
    ELSE /\ \A i \in 1..Len(new_answers) :
              WeakOrNoStrictAnswer(new_answers[i].question_id)
         /\ pc = "enhance" =>
              \A i \in 1..Len(needing_help) :
                  WeakOrNoStrictAnswer(needing_help[i].question_id)

C4_Witness ==
    /\ impl = "v2"
    /\ pc = "aggr_identify"
    /\ \E i \in 1..Len(new_answers) :
          StrictAnswersOf(new_answers[i].question_id) # {}
    /\ \E i \in 1..Len(strict_answers) :
          EnhancerAnswersOf(strict_answers[i].question_id) = {}

(* C10: every answer record that carries at least one issue requires manual
   review. *)
C10_IssuesRequireReview ==
    \A answers \in {strict_answers, new_answers, aggressive_answers} :
        \A i \in 1..Len(answers) :
            Len(answers[i].mapping_issues) > 0 =>
                answers[i].requires_manual_review

(* the option count of the question an answer record belongs to: the
   catalog's when the catalog is at hand, else the one the record carries *)
OptionCountOf(a) ==
    IF \E i \in 1..Len(questions) : questions[i].question_id = a.question_id
    THEN LET i == CHOOSE i \in 1..Len(questions) :
                      questions[i].question_id = a.question_id
         IN  questions[i].option_count
    ELSE a.option_count

(* C11: no stage emits in correct_answers an index greater than or equal to
   the question's option count without an issue naming that index. *)
C11_OutOfRangeFlagged ==
    \A answers \in {strict_answers, new_answers, aggressive_answers} :
        \A i \in 1..Len(answers) :
            \A k \in 1..Len(answers[i].correct_answers) :
                answers[i].correct_answers[k] >= OptionCountOf(answers[i]) =>
                    \E j \in 1..Len(answers[i].mapping_issues) :
                        answers[i].mapping_issues[j]
                          = Issue("Index exceeds option count",
                                  answers[i].correct_answers[k])

HasReturned(fn) == mode = "function" /\ call.fn = fn /\ call.state = "returned"

InUnitInterval(confidence) == 0 <= confidence /\ confidence <= ConfScale

(* C12: every confidence written into an answer record, by any stage and any
   method, lies in [0, 1]. *)
C12_ConfidenceInUnitInterval ==
    /\ \A answers \in {strict_answers, new_answers, aggressive_answers} :
          \A i \in 1..Len(answers) :
              InUnitInterval(answers[i].validation_confidence)
    /\ HasReturned("process_extracted_answer") =>
          InUnitInterval(call.out[1].validation_confidence)

(* C13: for a document with N delimiter matches the segmenter produces
   exactly N segments, in the order of the delimiters, the i-th holding the
   number and the text of the i-th match. *)
C13_SegmentsPartitionDocument ==
    /\ HasReturned("segment_by_questions") =>
          LET out == call.out[1]
              content == call.in.content
          IN  /\ Len(out) = Len(content)
              /\ \A i \in 1..Len(content) :
                    /\ out[i].number = content[i].number
                    /\ out[i].content = content[i]
    /\ HasReturned("extract_segments") =>
          LET out == call.out[1]
              content == call.in.content
          IN  /\ Cardinality(DOMAIN out) = Len(content)
              /\ \A i \in 1..Len(content) :
                    /\ content[i].number \in DOMAIN out
                    /\ out[content[i].number] = content[i]

(* C14: when the document holds no question delimiter, the run of the V1
   answer parser ends aborted and no output file is written. *)
C14_ZeroDelimitersAbort ==
    (mode = "parse_v1" /\ document = Some(<<>>) /\ pc \in {"done", "aborted"})
        => (pc = "aborted" /\ output = None)

HasDuplicate(content, n) ==
    Cardinality({i \in 1..Len(content) : content[i].number = n}) >= 2

LastOccurrence(content, n) ==
    content[CHOOSE i \in 1..Len(content) :
                /\ content[i].number = n
                /\ \A j \in (i + 1)..Len(content) : content[j].number # n]

RECURSIVE LastOccurrences(_)
LastOccurrences(content) ==
    IF content = <<>> THEN <<>>
    ELSE (IF \E j \in 2..Len(content) : content[j].number = Head(content).number
          THEN <<>> ELSE <<Head(content)>>)
         \o LastOccurrences(Tail(content))

(* C15: when a number is matched at two or more delimiters, each lookup of
   the segment of that number gives the text of the last occurrence, and the
   duplication is recorded: what the lookup returns is not what it returns
   for the document without the overwritten occurrences. *)
C15_DuplicateLastWinsRecorded ==
    /\ (HasReturned("extract_segment_content")
        /\ HasDuplicate(call.in.content, call.in.answer_number))
          => /\ call.out[1] =
                   Some(LastOccurrence(call.in.content, call.in.answer_number))
             /\ call.out[1] #
                   extract_segment_content(LastOccurrences(call.in.content),
                                           call.in.answer_number)
    /\ \A fn \in {"extract_segments", "extract_all_segments"} :
          HasReturned(fn) =>
             \A n \in QuestionNumbers :
                HasDuplicate(call.in.content, n) =>
                   /\ call.out[1][n] = LastOccurrence(call.in.content, n)
                   /\ call.out[1] #
                         extract_segments(LastOccurrences(call.in.content))

(* C16: every delimiter match whose segment is shorter than 50 characters
   is in the segmenter's output under its number, and the classifier puts
   its number, when no answer was parsed for it, in empty and not in
   has_content. *)
C16_ShortSegmentsKeptAndEmpty ==
    /\ HasReturned("segment_by_questions") =>
          \A i \in 1..Len(call.in.content) :
             call.in.content[i].length < MinSegmentLength =>
                \E j \in 1..Len(call.out[1]) :
                   /\ call.out[1][j].number = call.in.content[i].number
                   /\ call.out[1][j].content = call.in.content[i]
    /\ HasReturned("classify_segments") =>
          \A i \in 1..Len(call.in.content) :
             (/\ call.in.content[i].length < MinSegmentLength
              /\ call.in.content[i].number \notin call.in.parsed_numbers) =>
                /\ call.in.content[i].number \in Range(call.out[1].empty)
                /\ call.in.content[i].number \notin Range(call.out[1].has_content)

(* C17: a failure on one segment or question does not stop the run, and
   every segment or question the stage has gone through is in exactly one of
   the answers, the unparseable list and the recorded errors: after idx
   iterations the three lists hold idx entries together, and the run goes
   through all of them. *)
C17_EverySegmentInOneBucket ==
    /\ mode = "pipeline" =>
          Len(strict_answers) + Len(errors) =
             (IF pc = "strict" THEN idx ELSE Len(questions))
    /\ mode = "parse_v1" /\ pc \in {"loop", "done"} =>
          Len(strict_answers) + Len(stats.unparseable_segments)
             + Len(stats.parsing_errors) =
                (IF pc = "loop" THEN idx ELSE Len(segments))

DetectorNames ==
    {"V2PDFParser.detect_pdf_format", "V2AnswerParser.detect_pdf_format",
     "detect_format"}

DetectorInputs(fn) ==
    IF fn = "detect_format" THEN FixedFormatScores ELSE FormatScores

Detect(fn, format_scores) ==
    IF fn = "detect_format" THEN detect_format(format_scores)
    ELSE IF fn = "V2PDFParser.detect_pdf_format"
    THEN V2PDFParser_detect_pdf_format(TRUE, format_scores)
    ELSE V2AnswerParser_detect_pdf_format(TRUE, format_scores)

TopFormats(format_scores) ==
    {f \in DOMAIN format_scores : format_scores[f] = MaxScore(format_scores)}

(* some detector returns f on a sample in which f and g share the highest
   count *)
WinsTie(f, g) ==
    \E fn \in DetectorNames : \E sc \in DetectorInputs(fn) :
        /\ {f, g} \subseteq TopFormats(sc)
        /\ Detect(fn, sc) = f

(* C18: a format detector returns a format whose count is the highest among
   the known formats; when several formats share the highest count the
   winner follows one fixed priority order (no detector and no sample lets
   the loser win a tie against the winner), and in that order the more
   specific pattern 'legacy' is preferred over the looser 'standard'. *)
C18_HighestCountFixedPriority ==
    \A fn \in DetectorNames :
        (HasReturned(fn) /\ call.in.opened) =>
            LET sc == call.in.format_scores
                winner == call.out[1]
            IN  /\ winner \in TopFormats(sc)
                /\ \A g \in TopFormats(sc) \ {winner} : ~WinsTie(g, winner)
                /\ "legacy" \in TopFormats(sc) => winner # "standard"

FirstIndex(S) == CHOOSE i \in S : \A j \in S : i <= j

(* C19: in the strict extractors the first pattern, in priority order, that
   matches the segment decides: whatever is returned is the match of that
   pattern, never the match of a later one. *)
C19_FirstMatchDecides ==
    /\ HasReturned("extract_answer_multiple_formats") =>
          LET matched == {i \in 1..Len(FormatNames) :
                             call.in.formats[i] # "none"}
          IN  call.out[1] # None =>
                 call.out[1][1].format = FormatNames[FirstIndex(matched)]
    /\ HasReturned("extract_answer_multiple_patterns") =>
          LET matched == {i \in 1..Len(StrictPatternNames) : call.in.matches[i]}
          IN  call.out[1] # None =>
                 call.out[1][1].extraction_method =
                    StrictPatternNames[FirstIndex(matched)]

(* C20: two runs on the same text give the same keyword list, in the same
   order: the list does not depend on the iteration order of a set. *)
C20_RunsAgree ==
    (/\ mode = "function"
     /\ call.fn \in {"extract_keywords", "extract_aws_keywords"}
     /\ call.state = "returned"
     /\ Len(call.out[1]) = 2)
        => call.out[1][1] = call.out[1][2]

ConfidenceFunctions ==
    {"calculate_aggressive_confidence", "calculate_confidence_aggressive"}

ConfidenceOf(fn, c, method, has_question_text) ==
    IF fn = "calculate_aggressive_confidence"
    THEN calculate_aggressive_confidence(c, method, has_question_text)
    ELSE calculate_confidence_aggressive(c, method)

IdealLengths == 20..200

BandLengths == 15..300

(* the sum of the same addends is rounded the same way: two inputs with the
   same decimal sum carry the same round_err *)
SameRounding(fn, c1, c2, method, has_question_text) ==
    ConfidenceOf(fn, [c1 EXCEPT !.round_err = 0], method, has_question_text)
       = ConfidenceOf(fn, [c2 EXCEPT !.round_err = 0], method, has_question_text)
    => c1.round_err = c2.round_err

(* C21: with the other inputs held constant, the confidence of the
   aggressive stage does not decrease when more keywords are found or when
   the text gets longer inside the ideal band (20..200), and a text longer
   than the length band (over 300) gets a strictly lower confidence than the
   same inputs with a length inside the band (15..300). *)
C21_ConfidenceMonotone ==
    \A fn \in ConfidenceFunctions :
        HasReturned(fn) =>
            LET c == call.in.c
                confidence == call.out[1]
                Other(c2) == ConfidenceOf(fn, c2, call.in.method,
                                          call.in.has_question_text)
            IN  \A c2 \in ConfidenceFeatures :
                    (/\ c2.overlap = c.overlap
                     /\ SameRounding(fn, c, c2, call.in.method,
                                     call.in.has_question_text)) =>
                        /\ (/\ c2.clean_len = c.clean_len
                            /\ c2.aws_count >= c.aws_count
                            /\ c2.action_count >= c.action_count)
                              => confidence <= Other(c2)
                        /\ (/\ c2.aws_count = c.aws_count
                            /\ c2.action_count = c.action_count
                            /\ c.clean_len \in IdealLengths
                            /\ c2.clean_len \in IdealLengths
                            /\ c2.clean_len >= c.clean_len)
                              => confidence <= Other(c2)
                        /\ (/\ c2.aws_count = c.aws_count
                            /\ c2.action_count = c.action_count
                            /\ c.clean_len \in BandLengths
                            /\ c2.clean_len > 300)
                              => Other(c2) < confidence

C21_Witness ==
    /\ HasReturned("calculate_aggressive_confidence")
    /\ call.in.c.clean_len = 300
    /\ call.in.c.aws_count = 1
    /\ call.out[1] > calculate_aggressive_confidence(
                         [call.in.c EXCEPT !.clean_len = 301],
                         call.in.method, call.in.has_question_text)
    /\ call.out[1] < calculate_aggressive_confidence(
                         [call.in.c EXCEPT !.aws_count = 2],
                         call.in.method, call.in.has_question_text)

(* C22: every question a question parser emits has between 3 and 5
   options, lettered A, B, C, ... in order without gap or repeat. *)
C22_EmittedOptionsWellFormed ==
    \A fn \in QuestionParsers :
        (HasReturned(fn) /\ call.out[1] # None) =>
            LET options == call.out[1][1].options
            IN  /\ 3 <= Len(options) /\ Len(options) <= 5
                /\ options = SubSeq(ExpectedLetters, 1, Len(options))

(* C23: for every letter of the answer alphabet A..E, the index of the
   letter, taken back to a letter and to an index again, is the same index. *)
C23_LetterRoundTrip ==
    HasReturned("letter_round_trip") =>
        /\ call.out[1].index_again = call.out[1].index
        /\ call.out[1].index \in 0..4

C23_Witness ==
    /\ HasReturned("letter_round_trip")
    /\ call.in.letter = "e"
    /\ call.out[1] = [index |-> 4, letter |-> "E", index_again |-> 4]

(* C24: when clean_answer_text truncates a long match (over 200
   characters), the result is the first k sentences in order, k in 1..3:
   sentence 2 is there only if sentence 1 is under 100 characters, sentence
   3 only if sentences 1 and 2 together are under 150, and never without
   sentence 2. *)
C24_FirstSentencesKept ==
    (/\ HasReturned("clean_answer_text")
     /\ JoinedLength(call.in.sentences) > LongTextLength) =>
        LET kept == call.out[1].kept
            sentences == call.in.sentences
        IN  /\ \E k \in 1..3 : kept = [i \in 1..k |-> i]
            /\ 2 \in Range(kept) => sentences[1] < 100
            /\ 3 \in Range(kept) =>
                  /\ 2 \in Range(kept)
                  /\ sentences[1] + 1 + sentences[2] < 150

(* C25: context inference returns an option exactly when the highest
   score is above 1; the option returned has the highest score and is the
   first such option in option order. *)
C25_FirstMaxAboveThreshold ==
    HasReturned("infer_from_context") =>
        LET scores == call.in.scores
            result == call.out[1]
            top == {i \in 1..Len(scores) :
                       \A j \in 1..Len(scores) : scores[j] <= scores[i]}
        IN  /\ result # None <=> \E i \in top : scores[i] > 1
            /\ result # None =>
                  \E i \in top :
                      /\ \A j \in top : i <= j
                      /\ result[1].found_letters =
                            {ExpectedLetters[i]} \cup call.in.extra[i]

C25_Witness ==
    /\ HasReturned("infer_from_context")
    /\ call.in.scores = <<1, 2, 2>>
    /\ call.out[1] # None
    /\ call.out[1][1].found_letters = {"B"}

(* C26: whatever runs the combiner instance has made before, the dataset a
   run returns counts that run only: answered_questions is the number of its
   records with an answer, and matched_pairs + unmatched_questions is the
   number of its questions. *)
C26_StatsDescribeRunOnly ==
    (mode = "combine" /\ pc = "done" /\ dataset.status = "ok") =>
        /\ dataset.answered_questions =
              Cardinality(AnsweredPairs(dataset.study_data))
        /\ dataset.processing_stats.matched_pairs
              + dataset.processing_stats.unmatched_questions = Len(questions)

(* C27: a record that extract_answer_aggressively returns for a context
   inference or a keyword inference names the one option the inference chose:
   its correct_answers is a single index, with no further letter picked up
   from inside the option text of the synthesized raw text. *)
C27_InferenceNamesOneOption ==
    \A i \in 1..Len(aggressive_answers) :
        LET a == aggressive_answers[i]
        IN  a.extraction_method \in InferenceMethods =>
                /\ Len(a.correct_answers) = 1
                /\ a.correct_answers[1] \in 0..(a.option_count - 1)

(* C28: merge_ai_answers fills only records whose answer is null and whose
   question number is in the AI answer set, with an AI answer of that number;
   a record that had an answer is unchanged, a record without matching AI
   answer stays null, and ai_answers_merged is the number of records
   filled. *)
AiNumbers(ai_data) ==
    IF ai_data.has_ai_answers
    THEN {ai_data.ai_answers[k].question_number :
             k \in 1..Len(ai_data.ai_answers)}
    ELSE {}

C28_MergeFillsOnlyNull ==
    HasReturned("merge_ai_answers") =>
        LET before == call.in.study_data
            after == call.out[1].study_data
            numbers == AiNumbers(call.in.ai_data)
            filled == {i \in 1..Len(before) :
                          before[i].answer = None /\ after[i].answer # None}
        IN  /\ Len(after) = Len(before)
            /\ \A i \in 1..Len(before) :
                 /\ after[i].question_number = before[i].question_number
                 /\ before[i].answer # None => after[i] = before[i]
                 /\ (before[i].answer = None
                       /\ before[i].question_number \notin numbers) =>
                        after[i] = before[i]
                 /\ after[i] # before[i] =>
                        /\ before[i].answer = None
                        /\ after[i].answer # None
                        /\ after[i].answer[1].source = "ai_generated"
                        /\ \E k \in 1..Len(call.in.ai_data.ai_answers) :
                              LET ai == call.in.ai_data.ai_answers[k]
                              IN  /\ ai.question_number = before[i].question_number
                                  /\ ai.correct_answer =
                                        after[i].answer[1].correct_answer
            /\ call.out[1].ai_answers_merged = Cardinality(filled)

C28_Witness ==
    /\ HasReturned("merge_ai_answers")
    /\ Len(call.in.study_data) = 2
    /\ call.in.study_data[1].answer # None
    /\ call.in.study_data[1].question_number = 1
    /\ call.in.study_data[2].answer = None
    /\ call.in.study_data[2].question_number = 2
    /\ AiNumbers(call.in.ai_data) = {1, 2}
    /\ call.out[1].study_data[1] = call.in.study_data[1]
    /\ call.out[1].study_data[2].answer # None
    /\ call.out[1].ai_answers_merged = 1

(* C29: the final_coverage that merge_ai_answers reports agrees with the
   dataset it is written into: total_questions is the number of study
   records and answered_questions the number of records with an answer. *)
C29_FinalCoverageMatchesDataset ==
    HasReturned("merge_ai_answers") =>
        LET after == call.out[1].study_data
            coverage == call.out[1].final_coverage
        IN  /\ coverage.total_questions = Len(after)
            /\ coverage.answered_questions =
                  Cardinality({i \in 1..Len(after) : after[i].answer # None})

(* C30: after classify_segments on a source that contains every parsed
   answer number, the categories parsed, empty, has_content and missing are
   pairwise disjoint, parsed, empty and has_content together are the question
   numbers found in the source, and every number of 1..681 is in exactly one
   category. *)
SourceNumbers(source_content) ==
    {source_content[i].number : i \in 1..Len(source_content)}

C30_CategoriesPartition ==
    (/\ HasReturned("classify_segments")
     /\ call.in.parsed_numbers \subseteq SourceNumbers(call.in.content)) =>
        LET categories == call.out[1]
            names == {"parsed", "empty", "has_content", "missing"}
            members == [a \in names |-> Range(categories[a])]
            in_source == members.parsed \cup members.empty
                            \cup members.has_content
        IN  /\ \A a \in names : \A b \in names \ {a} :
                  members[a] \cap members[b] = {}
            /\ \A a \in names :
                  Len(categories[a]) = Cardinality(members[a])
            /\ in_source = SourceNumbers(call.in.content)
            /\ (1..TotalPdfQuestions) \subseteq (in_source \cup members.missing)

C30_Witness ==
    /\ HasReturned("classify_segments")
    /\ call.in.parsed_numbers = {1}
    /\ SourceNumbers(call.in.content) = {1, 2}
    /\ call.out[1].parsed = <<1>>
    /\ call.out[1].empty = <<2>>
    /\ call.out[1].has_content = <<>>
    /\ Len(call.out[1].missing) = TotalPdfQuestions - 2

====
